---- MODULE Spec2Model ----
(***************************************************************************)
(* AzureOpenAIChatCompletionsFormatter (kanuni-openai): the formatter that *)
(* turns a Kanuni query (prompt, memory, tools, output declaration) into   *)
(* the parameters of an OpenAI chat-completions call.                      *)
(*                                                                         *)
(* A formatter instance is constructed once (Init) and format() is then    *)
(* called any number of times.  One call is modelled step by step: the     *)
(* instructions formatter, one action per iteration of the regrouping      *)
(* loop, the synthesis of the messages, formatTools, and the switch on the *)
(* output type.  Further specifications run several calls on one instance  *)
(* (one after the other, or with their steps interleaved) and the sibling  *)
(* AzureOpenAIChatCompletionsJsonFormatter.                                *)
(*                                                                         *)
(* JavaScript values: an object is a record, an optional property that is  *)
(* undefined is a field that is absent from the record's DOMAIN, an array  *)
(* is a sequence, a function value held in a field is the name of the      *)
(* function.                                                               *)
(***************************************************************************)
EXTENDS Integers, Sequences, FiniteSets, TLC

\* ------------------------------------------------------------------------
\* Bounds of the model
\* ------------------------------------------------------------------------

\* longest memory of the queries that vary the memory
MaxLen == 4

\* longest memory of the queries that vary prompt, tools and output as well
MaxShapeLen == 1

\* most calls of format() on one instance, where the calls are recorded
MaxCalls == 3

\* ------------------------------------------------------------------------
\* JavaScript atoms
\* ------------------------------------------------------------------------

\* the value undefined, where it is passed around as a value
Undefined == "<undefined>"

\* the value null of a tool call result payload
Null == "<null>"

\* the value null of the local variable lastGroup
NullGroup == [type |-> "null"]

\* an argument the caller did not pass
Omitted == "<omitted>"

\* the object {}
EmptyObject == "{}"

\* ------------------------------------------------------------------------
\* Program constants
\* ------------------------------------------------------------------------

SUPPORTED_ROLES == {"user", "assistant"}

DEFAULT_INSTRUCTIONS_ROLE == "system"

\* ------------------------------------------------------------------------
\* Inputs: configurations and queries
\* ------------------------------------------------------------------------

\* The role mappers a caller configures in the tests, by name.
\*   swapRoleMapper:    role === "user" ? "assistant" : "user"
\*   systemRoleMapper:  () => "system"
CustomRoleMappers == {"swapRoleMapper", "systemRoleMapper"}

\* The instructions formatter a caller configures in the tests:
\*   () => "custom instructions"
CustomInstructionsFormatters == {"customFormatter"}

\* The argument of the constructor; Undefined stands for a property the
\* caller left out.
ConfigArgs ==
  { [instructionsRole |-> Undefined, instructionsFormatter |-> Undefined,
     roleMapper |-> Undefined],
    [instructionsRole |-> "developer", instructionsFormatter |-> "customFormatter",
     roleMapper |-> Undefined],
    [instructionsRole |-> Undefined, instructionsFormatter |-> Undefined,
     roleMapper |-> "swapRoleMapper"],
    [instructionsRole |-> "developer", instructionsFormatter |-> Undefined,
     roleMapper |-> "systemRoleMapper"] }

\* Memory items.  An utterance has a role, an optional name and contents.
UtteranceItems ==
  { [type |-> "utterance", role |-> "user", contents |-> "hi"],
    [type |-> "utterance", role |-> "user", name |-> "bob", contents |-> "yo"],
    [type |-> "utterance", role |-> "user", name |-> "", contents |-> "hi"],
    [type |-> "utterance", role |-> "assistant", contents |-> "done"],
    [type |-> "utterance", role |-> "assistant", contents |-> "here"],
    [type |-> "utterance", role |-> "narrator", contents |-> "hm"] }

ToolCallItems ==
  { [type |-> "tool-call", toolName |-> "t1", toolCallId |-> id, arguments |-> "{}"]
      : id \in {"c1", "c2"} }

ToolCallResultItems ==
  { [type |-> "tool-call-result", toolCallId |-> "c1", result |-> "r1"],
    [type |-> "tool-call-result", toolCallId |-> "c2", result |-> Null] }

\* a memory item of a type this formatter does not know
UnexpectedItems == { [type |-> "snapshot"] }

MemoryItems == UtteranceItems \cup ToolCallItems \cup ToolCallResultItems \cup UnexpectedItems

SeqsUpTo(S, n) == UNION { [1..k -> S] : k \in 0..n }

Prompts == {"Explain X", "Answer Y"}

\* Tool registries, as the sequence Object.values() walks.
ToolA == [name |-> "get_weather", description |-> "Get weather", parameters |-> "location"]

ToolB == [name |-> "get_time", description |-> "Get time", parameters |-> "zone"]

ToolRegistries == { <<>>, <<ToolA>>, <<ToolA, ToolB>> }

Outputs ==
  { [type |-> "output-text"],
    [type |-> "output-json", schema |-> "S", schemaName |-> "TestSchema"],
    [type |-> "unknown-output-type"] }

\* Queries that vary the memory: text output, no tools.
MemoryQueries ==
  { [prompt |-> "Explain X", output |-> [type |-> "output-text"]] }
  \cup { [prompt |-> "Explain X", memory |-> [contents |-> m],
          output |-> [type |-> "output-text"]] : m \in SeqsUpTo(MemoryItems, MaxLen) }

\* Queries that vary the prompt, the tools and the output, with a short memory.
ShapeQueries ==
  { [prompt |-> p, output |-> o] : p \in Prompts, o \in Outputs }
  \cup { [prompt |-> p, tools |-> t, output |-> o]
           : p \in Prompts, t \in ToolRegistries, o \in Outputs }
  \cup { [prompt |-> p, memory |-> [contents |-> m], output |-> o]
           : p \in Prompts, m \in SeqsUpTo(MemoryItems, MaxShapeLen), o \in Outputs }
  \cup { [prompt |-> p, memory |-> [contents |-> m], tools |-> t, output |-> o]
           : p \in Prompts, m \in SeqsUpTo(MemoryItems, MaxShapeLen),
             t \in ToolRegistries, o \in Outputs }

Queries == MemoryQueries \cup ShapeQueries

\* ------------------------------------------------------------------------
\* State
\* ------------------------------------------------------------------------

VARIABLES
  configArg,               \* the argument the constructor was called with
  instructionsRole,        \* this.instructionsRole
  instructionsFormatter,   \* this.instructionsFormatter
  roleMapper,              \* this.roleMapper
  pc,                      \* where the current call of format() is
  query,                   \* the query of the current call
  instructions,            \* formatMemoryItems: const instructions
  pos,                     \* index of the next memory item of the for loop
  lastGroup,               \* formatMemoryItems: let lastGroup
  regroupedMemoryItems,    \* formatMemoryItems: const regroupedMemoryItems
  memoryItems,             \* format: const memoryItems
  tools,                   \* format: const tools
  outcome,                 \* what the call returned or threw
  roleMapperCalls,         \* arguments of the calls of this.roleMapper
  paramsArg,               \* the second argument format() was called with
  params,                  \* format: _params, the parameter after its default
  overlapped,              \* another call was in progress during the current call
  suspended,               \* the other call in progress, its locals set aside
  completed                \* the calls that ended: query, argument, outcome

vars == <<configArg, instructionsRole, instructionsFormatter, roleMapper, pc, query,
          instructions, pos, lastGroup, regroupedMemoryItems, memoryItems,
          tools, outcome, roleMapperCalls, paramsArg, params, overlapped,
          suspended, completed>>

config == <<configArg, instructionsRole, instructionsFormatter, roleMapper>>

\* what no step inside a call touches: the arguments of the call and the
\* other calls on the instance
callContext == <<paramsArg, params, overlapped, suspended, completed>>

\* no other call is in progress
NoCall == [pc |-> "none"]

NoQuery == [prompt |-> ""]

NoOutcome == [status |-> "none"]

Returned(value) == [status |-> "returned", value |-> value]

Thrown(message) == [status |-> "thrown", message |-> message]

\* ------------------------------------------------------------------------
\* Pure functions of the formatter
\* ------------------------------------------------------------------------

\* identityRoleMapper: SUPPORTED_ROLES.find(role => role === sourceRole), or throw.
identityRoleMapper(sourceRole) ==
  IF sourceRole \in SUPPORTED_ROLES
    THEN Returned(sourceRole)
    ELSE Thrown("Unknown role: " \o sourceRole)

\* this.roleMapper(sourceRole, name)
CallRoleMapper(mapper, sourceRole, name) ==
  CASE mapper = "identityRoleMapper" -> identityRoleMapper(sourceRole)
    [] mapper = "swapRoleMapper" ->
         Returned(IF sourceRole = "user" THEN "assistant" ELSE "user")
    [] mapper = "systemRoleMapper" -> Returned("system")

\* new TextualMarkdownFormatter().format(query): renders the prompt.
TextualMarkdownFormat(q) == q.prompt

\* _params: ... = {}: the default is taken when the argument is undefined,
\* passed or not
DefaultParams(arg) == IF arg \in {Omitted, Undefined} THEN EmptyObject ELSE arg

\* this.instructionsFormatter(query)
CallInstructionsFormatter(formatter, q) ==
  CASE formatter = "textualMarkdownFormatter" -> TextualMarkdownFormat(q)
    [] formatter = "customFormatter" -> "custom instructions"

\* query.memory?.contents || []
Contents(q) == IF "memory" \in DOMAIN q THEN q.memory.contents ELSE <<>>

\* Mutant of NameOf: an utterance without a name passes the empty string.
NameOf_EmptyString(memoryItem) ==
  IF "name" \in DOMAIN memoryItem THEN memoryItem.name ELSE ""

\* memoryItem.name, undefined when the utterance has none
NameOf(memoryItem) == IF "name" \in DOMAIN memoryItem THEN memoryItem.name ELSE Undefined

\* Mutant of IsToolCallOnlyAssistant: the test of utteranceItem is forgotten.
IsToolCallOnlyAssistant_AnyAssistant(group) ==
  group.type = "assistant"

\* Mutant of IsToolCallOnlyAssistant: an utterance is never attached in place.
IsToolCallOnlyAssistant_Never(group) ==
  group.type = "assistant" /\ "utteranceItem" \notin DOMAIN group /\ FALSE

\* lastGroup.type === 'assistant' && lastGroup.utteranceItem === undefined
IsToolCallOnlyAssistant(group) ==
  group.type = "assistant" /\ "utteranceItem" \notin DOMAIN group

\* Mutant of UtteranceSwitch: the default case is missing and any other role
\* falls into the assistant case.
UtteranceSwitch_NoDefault(mappedRole, memoryItem) ==
  IF mappedRole = "user"
    THEN Returned([type |-> "user", utteranceItem |-> memoryItem])
    ELSE Returned([type |-> "assistant", utteranceItem |-> memoryItem, toolCalls |-> <<>>])

\* switch (this.roleMapper(...)) of the utterance case, given what the mapper
\* returned: the group the utterance opens, or the error of the default case.
UtteranceSwitch(mappedRole, memoryItem) ==
  CASE mappedRole = "user" ->
         Returned([type |-> "user", utteranceItem |-> memoryItem])
    [] mappedRole = "assistant" ->
         Returned([type |-> "assistant", utteranceItem |-> memoryItem, toolCalls |-> <<>>])
    [] OTHER ->
         Thrown("Only user and assistant utterances are supported by AzureOpenAIChatCompletionsJsonFormatter")

\* Mutant of IsOrphanResult: a result that starts the memory is not rejected.
IsOrphanResult_Never(group) ==
  group = NullGroup /\ FALSE

\* lastGroup === null in the tool-call-result case
IsOrphanResult(group) == group = NullGroup

\* Mutant of formatToolCall: the entry is identified by the tool's name.
formatToolCall_ToolNameAsId(toolCall) ==
  [id |-> toolCall.toolName,
   type |-> "function",
   function |-> [name |-> toolCall.toolName, arguments |-> toolCall.arguments]]

formatToolCall(toolCall) ==
  [id |-> toolCall.toolCallId,
   type |-> "function",
   function |-> [name |-> toolCall.toolName, arguments |-> toolCall.arguments]]

\* Mutant of formatToolCalls: the tool calls come out in reverse order.
formatToolCalls_Reversed(toolCalls) ==
  [i \in 1..Len(toolCalls) |-> formatToolCall(toolCalls[Len(toolCalls) + 1 - i])]

\* item.toolCalls.map(toolCall => this.formatToolCall(toolCall))
formatToolCalls(toolCalls) ==
  [i \in 1..Len(toolCalls) |-> formatToolCall(toolCalls[i])]

\* Mutant of formatToolCallResult: a null payload is passed on as it is.
formatToolCallResult_NoSentinel(toolCallResult) ==
  [role |-> "tool",
   content |-> toolCallResult.result,
   tool_call_id |-> toolCallResult.toolCallId]

formatToolCallResult(toolCallResult) ==
  [role |-> "tool",
   content |-> IF toolCallResult.result = Null THEN "Success" ELSE toolCallResult.result,
   tool_call_id |-> toolCallResult.toolCallId]

formatUserGroup(item) ==
  IF "name" \in DOMAIN item.utteranceItem
    THEN [role |-> "user", content |-> item.utteranceItem.contents,
          name |-> item.utteranceItem.name]
    ELSE [role |-> "user", content |-> item.utteranceItem.contents]

\* Mutant of formatAssistantGroup: tool_calls is emitted also when it is empty.
\* Mutant of formatAssistantGroup: a group without an utterance is given a
\* null content.
formatAssistantGroup_NullContent(item) ==
  IF Len(item.toolCalls) > 0
    THEN [role |-> "assistant",
          content |-> IF "utteranceItem" \in DOMAIN item
                        THEN item.utteranceItem.contents ELSE Null,
          tool_calls |-> formatToolCalls(item.toolCalls)]
    ELSE [role |-> "assistant",
          content |-> IF "utteranceItem" \in DOMAIN item
                        THEN item.utteranceItem.contents ELSE Null]

formatAssistantGroup_AlwaysToolCalls(item) ==
  IF "utteranceItem" \in DOMAIN item
    THEN [role |-> "assistant", content |-> item.utteranceItem.contents,
          tool_calls |-> formatToolCalls(item.toolCalls)]
    ELSE [role |-> "assistant",
          tool_calls |-> formatToolCalls(item.toolCalls)]

formatAssistantGroup(item) ==
  IF "utteranceItem" \in DOMAIN item
    THEN IF Len(item.toolCalls) > 0
           THEN [role |-> "assistant", content |-> item.utteranceItem.contents,
                 tool_calls |-> formatToolCalls(item.toolCalls)]
           ELSE [role |-> "assistant", content |-> item.utteranceItem.contents]
    ELSE IF Len(item.toolCalls) > 0
           THEN [role |-> "assistant",
                 tool_calls |-> formatToolCalls(item.toolCalls)]
           ELSE [role |-> "assistant"]

\* Mutant of formatGroup: a group of results becomes one message, that of its
\* first result.
formatGroup_OneMessagePerGroup(item) ==
  CASE item.type = "user" -> <<formatUserGroup(item)>>
    [] item.type = "assistant" -> <<formatAssistantGroup(item)>>
    [] item.type = "tool-call-result" -> <<formatToolCallResult(item.toolCallResults[1])>>
    [] OTHER -> <<>>

\* the callback of regroupedMemoryItems.map, with the .flat() that follows:
\* the messages one group becomes
formatGroup(item) ==
  CASE item.type = "user" -> <<formatUserGroup(item)>>
    [] item.type = "assistant" -> <<formatAssistantGroup(item)>>
    [] item.type = "tool-call-result" ->
         [i \in 1..Len(item.toolCallResults) |->
            formatToolCallResult(item.toolCallResults[i])]
    [] OTHER -> <<>>

\* the default case of that callback is taken for some group
HasUnknownGroup(groups) ==
  \E i \in 1..Len(groups) :
    groups[i].type \notin {"user", "assistant", "tool-call-result"}

RECURSIVE FlatMapGroups(_)
FlatMapGroups(groups) ==
  IF groups = <<>> THEN <<>>
  ELSE formatGroup(Head(groups)) \o FlatMapGroups(Tail(groups))

\* Mutant of SynthesizeMessages: the configured instructions role is ignored.
SynthesizeMessages_DefaultRole(role, text, groups) ==
  <<[role |-> DEFAULT_INSTRUCTIONS_ROLE, content |-> text]>> \o FlatMapGroups(groups)

\* const memoryItems = [{role, content}, ...regroupedMemoryItems.map(...).flat()]
SynthesizeMessages(role, text, groups) ==
  <<[role |-> role, content |-> text]>> \o FlatMapGroups(groups)

\* zodToJsonSchema(z.strictObject(tool.parameters), {openaiStrictMode: true, name, ...})
zodToJsonSchema(tool) ==
  [name |-> tool.name, strictObject |-> tool.parameters, openaiStrictMode |-> TRUE]

\* Mutant of formatTool: strict is left out of the function definition.
formatTool_NotStrict(tool) ==
  [type |-> "function",
   function |-> [name |-> tool.name, description |-> tool.description,
                 parameters |-> zodToJsonSchema(tool), strict |-> FALSE]]

formatTool(tool) ==
  [type |-> "function",
   function |-> [name |-> tool.name, description |-> tool.description,
                 parameters |-> zodToJsonSchema(tool), strict |-> TRUE]]

formatTools(q) ==
  IF "tools" \notin DOMAIN q \/ Len(q.tools) = 0
    THEN <<>>
    ELSE [i \in 1..Len(q.tools) |-> formatTool(q.tools[i])]

\* zodResponseFormat(output.schema, output.schemaName)
zodResponseFormat(output) ==
  [type |-> "json_schema",
   json_schema |-> [name |-> output.schemaName, strict |-> TRUE, schema |-> output.schema]]

\* formatJsonSchema, given query.output.  In the message of its error the
\* operator + binds tighter than !==, so the condition of the conditional is
\* ('Query output type must be ...' + output) !== undefined, which is true
\* for every output, and the message is the first branch alone.
formatJsonSchema(output) ==
  IF output.type # "output-json"
    THEN Thrown("got '" \o output.type \o "'")
    ELSE Returned(zodResponseFormat(output))

\* the value undefined of the local variable responseJsonSchema
UndefinedSchema == [type |-> "undefined"]

\* Mutant of AssembleResult: response_format is spread into the result
\* without the test for undefined.
AssembleResult_AlwaysResponseFormat(messages, responseJsonSchema, toolDefinitions) ==
  [messages |-> messages, response_format |-> responseJsonSchema,
   tools |-> toolDefinitions]

\* the return statement of format; formatTools never returns undefined
AssembleResult(messages, responseJsonSchema, toolDefinitions) ==
  IF responseJsonSchema = UndefinedSchema
    THEN [messages |-> messages, tools |-> toolDefinitions]
    ELSE [messages |-> messages, response_format |-> responseJsonSchema,
          tools |-> toolDefinitions]

\* ------------------------------------------------------------------------
\* Construction
\* ------------------------------------------------------------------------

Init ==
  /\ \E arg \in ConfigArgs :
       /\ configArg = arg
       /\ instructionsRole =
            IF arg.instructionsRole = Undefined THEN DEFAULT_INSTRUCTIONS_ROLE
            ELSE arg.instructionsRole
       /\ instructionsFormatter =
            IF arg.instructionsFormatter = Undefined THEN "textualMarkdownFormatter"
            ELSE arg.instructionsFormatter
       /\ roleMapper =
            IF arg.roleMapper = Undefined THEN "identityRoleMapper" ELSE arg.roleMapper
  /\ pc = "idle"
  /\ query = NoQuery
  /\ instructions = ""
  /\ pos = 1
  /\ lastGroup = NullGroup
  /\ regroupedMemoryItems = <<>>
  /\ memoryItems = <<>>
  /\ tools = <<>>
  /\ outcome = NoOutcome
  /\ roleMapperCalls = <<>>
  /\ paramsArg = Omitted
  /\ params = EmptyObject
  /\ overlapped = FALSE
  /\ suspended = NoCall
  /\ completed = <<>>

\* ------------------------------------------------------------------------
\* format(query, _params)
\* ------------------------------------------------------------------------

\* Mutant of Call: the output type is looked at on entry, before the memory.
Call_ChecksOutputFirst ==
  /\ pc = "idle"
  /\ \E q \in Queries :
       /\ query' = q
       /\ instructions' = CallInstructionsFormatter(instructionsFormatter, q)
       /\ IF q.output.type \in {"output-text", "output-json"}
            THEN pc' = "loop" /\ UNCHANGED outcome
            ELSE /\ pc' = "thrown"
                 /\ outcome' = Thrown("Unknown output type: " \o q.output.type)
  /\ pos' = 1
  /\ lastGroup' = NullGroup
  /\ regroupedMemoryItems' = <<>>
  /\ paramsArg' = Omitted
  /\ params' = DefaultParams(Omitted)
  /\ UNCHANGED <<config, memoryItems, tools, roleMapperCalls, overlapped,
                 suspended, completed>>

\* format is entered and formatMemoryItems runs up to the for loop.
Call ==
  /\ pc = "idle"
  /\ \E q \in Queries :
       /\ query' = q
       /\ instructions' = CallInstructionsFormatter(instructionsFormatter, q)
  /\ pos' = 1
  /\ lastGroup' = NullGroup
  /\ regroupedMemoryItems' = <<>>
  /\ pc' = "loop"
  /\ paramsArg' = Omitted
  /\ params' = DefaultParams(Omitted)
  /\ UNCHANGED <<config, memoryItems, tools, outcome, roleMapperCalls, overlapped,
                 suspended, completed>>

\* Mutant of Throw: the error is caught and the messages of the groups closed
\* so far are returned.
Throw_ReturnsPartial(message) ==
  /\ pc' = "returned"
  /\ outcome' = Returned([messages |-> SynthesizeMessages(instructionsRole, instructions,
                                                          regroupedMemoryItems),
                          tools |-> <<>>])

\* throw new Error(message): the call ends with the error
Throw(message) ==
  /\ pc' = "thrown"
  /\ outcome' = Thrown(message)

\* One iteration of the loop, case 'utterance'.
\* Mutant of IterUtterance: the group an utterance is attached to in place
\* loses the tool calls it held.
IterUtterance_AttachDropsToolCalls ==
  /\ pc = "loop"
  /\ pos <= Len(Contents(query))
  /\ Contents(query)[pos].type = "utterance"
  /\ LET memoryItem == Contents(query)[pos] IN
       IF IsToolCallOnlyAssistant(lastGroup)
         THEN /\ lastGroup' = [type |-> "assistant", utteranceItem |-> memoryItem,
                               toolCalls |-> <<>>]
              /\ pos' = pos + 1
              /\ UNCHANGED <<pc, regroupedMemoryItems, outcome, roleMapperCalls>>
         ELSE LET mapped == CallRoleMapper(roleMapper, memoryItem.role, NameOf(memoryItem)) IN
              /\ regroupedMemoryItems' =
                   IF lastGroup # NullGroup
                     THEN Append(regroupedMemoryItems, lastGroup)
                     ELSE regroupedMemoryItems
              /\ roleMapperCalls' =
                   Append(roleMapperCalls, <<memoryItem.role, NameOf(memoryItem)>>)
              /\ IF mapped.status = "thrown"
                   THEN /\ Throw(mapped.message)
                        /\ UNCHANGED <<lastGroup, pos>>
                   ELSE LET opened == UtteranceSwitch(mapped.value, memoryItem) IN
                        IF opened.status = "thrown"
                          THEN /\ Throw(opened.message)
                               /\ UNCHANGED <<lastGroup, pos>>
                          ELSE /\ lastGroup' = opened.value
                               /\ pos' = pos + 1
                               /\ UNCHANGED <<pc, outcome>>
  /\ UNCHANGED <<config, query, instructions, memoryItems, tools, callContext>>

\* Mutant of IterUtterance: the role mapper is called for the utterance that
\* is attached in place too.
IterUtterance_MapsAttached ==
  /\ pc = "loop"
  /\ pos <= Len(Contents(query))
  /\ Contents(query)[pos].type = "utterance"
  /\ LET memoryItem == Contents(query)[pos] IN
       IF IsToolCallOnlyAssistant(lastGroup)
         THEN /\ lastGroup' = [type |-> "assistant", utteranceItem |-> memoryItem,
                               toolCalls |-> lastGroup.toolCalls]
              /\ roleMapperCalls' =
                   Append(roleMapperCalls, <<memoryItem.role, NameOf(memoryItem)>>)
              /\ pos' = pos + 1
              /\ UNCHANGED <<pc, regroupedMemoryItems, outcome>>
         ELSE LET mapped == CallRoleMapper(roleMapper, memoryItem.role, NameOf(memoryItem)) IN
              /\ regroupedMemoryItems' =
                   IF lastGroup # NullGroup
                     THEN Append(regroupedMemoryItems, lastGroup)
                     ELSE regroupedMemoryItems
              /\ roleMapperCalls' =
                   Append(roleMapperCalls, <<memoryItem.role, NameOf(memoryItem)>>)
              /\ IF mapped.status = "thrown"
                   THEN /\ Throw(mapped.message)
                        /\ UNCHANGED <<lastGroup, pos>>
                   ELSE LET opened == UtteranceSwitch(mapped.value, memoryItem) IN
                        IF opened.status = "thrown"
                          THEN /\ Throw(opened.message)
                               /\ UNCHANGED <<lastGroup, pos>>
                          ELSE /\ lastGroup' = opened.value
                               /\ pos' = pos + 1
                               /\ UNCHANGED <<pc, outcome>>
  /\ UNCHANGED <<config, query, instructions, memoryItems, tools, callContext>>

\* Mutant of IterUtterance: an utterance is attached in place to any open
\* assistant group, replacing the utterance the group has.
IterUtterance_Overwrites ==
  /\ pc = "loop"
  /\ pos <= Len(Contents(query))
  /\ Contents(query)[pos].type = "utterance"
  /\ LET memoryItem == Contents(query)[pos] IN
       IF lastGroup.type = "assistant"
         THEN /\ lastGroup' = [type |-> "assistant", utteranceItem |-> memoryItem,
                               toolCalls |-> lastGroup.toolCalls]
              /\ pos' = pos + 1
              /\ UNCHANGED <<pc, regroupedMemoryItems, outcome, roleMapperCalls>>
         ELSE LET mapped == CallRoleMapper(roleMapper, memoryItem.role, NameOf(memoryItem)) IN
              /\ regroupedMemoryItems' =
                   IF lastGroup # NullGroup
                     THEN Append(regroupedMemoryItems, lastGroup)
                     ELSE regroupedMemoryItems
              /\ roleMapperCalls' =
                   Append(roleMapperCalls, <<memoryItem.role, NameOf(memoryItem)>>)
              /\ IF mapped.status = "thrown"
                   THEN /\ Throw(mapped.message)
                        /\ UNCHANGED <<lastGroup, pos>>
                   ELSE LET opened == UtteranceSwitch(mapped.value, memoryItem) IN
                        IF opened.status = "thrown"
                          THEN /\ Throw(opened.message)
                               /\ UNCHANGED <<lastGroup, pos>>
                          ELSE /\ lastGroup' = opened.value
                               /\ pos' = pos + 1
                               /\ UNCHANGED <<pc, outcome>>
  /\ UNCHANGED <<config, query, instructions, memoryItems, tools, callContext>>

IterUtterance ==
  /\ pc = "loop"
  /\ pos <= Len(Contents(query))
  /\ Contents(query)[pos].type = "utterance"
  /\ LET memoryItem == Contents(query)[pos] IN
       IF IsToolCallOnlyAssistant(lastGroup)
         THEN /\ lastGroup' = [type |-> "assistant", utteranceItem |-> memoryItem,
                               toolCalls |-> lastGroup.toolCalls]
              /\ pos' = pos + 1
              /\ UNCHANGED <<pc, regroupedMemoryItems, outcome, roleMapperCalls>>
         ELSE LET mapped == CallRoleMapper(roleMapper, memoryItem.role, NameOf(memoryItem)) IN
              /\ regroupedMemoryItems' =
                   IF lastGroup # NullGroup
                     THEN Append(regroupedMemoryItems, lastGroup)
                     ELSE regroupedMemoryItems
              /\ roleMapperCalls' =
                   Append(roleMapperCalls, <<memoryItem.role, NameOf(memoryItem)>>)
              /\ IF mapped.status = "thrown"
                   THEN /\ Throw(mapped.message)
                        /\ UNCHANGED <<lastGroup, pos>>
                   ELSE LET opened == UtteranceSwitch(mapped.value, memoryItem) IN
                        IF opened.status = "thrown"
                          THEN /\ Throw(opened.message)
                               /\ UNCHANGED <<lastGroup, pos>>
                          ELSE /\ lastGroup' = opened.value
                               /\ pos' = pos + 1
                               /\ UNCHANGED <<pc, outcome>>
  /\ UNCHANGED <<config, query, instructions, memoryItems, tools, callContext>>

\* One iteration of the loop, case 'tool-call'.
\* Mutant of IterToolCall: a tool call that finds a user group open turns it
\* into an assistant group with the user's utterance and the call.
IterToolCall_AttachesToUser ==
  /\ pc = "loop"
  /\ pos <= Len(Contents(query))
  /\ Contents(query)[pos].type = "tool-call"
  /\ LET memoryItem == Contents(query)[pos] IN
       IF lastGroup = NullGroup
         THEN /\ lastGroup' = [type |-> "assistant", toolCalls |-> <<memoryItem>>]
              /\ UNCHANGED regroupedMemoryItems
         ELSE IF lastGroup.type = "assistant"
                THEN /\ lastGroup' =
                          [lastGroup EXCEPT !.toolCalls = Append(@, memoryItem)]
                     /\ UNCHANGED regroupedMemoryItems
                ELSE IF lastGroup.type = "user"
                       THEN /\ lastGroup' =
                                 [type |-> "assistant",
                                  utteranceItem |-> lastGroup.utteranceItem,
                                  toolCalls |-> <<memoryItem>>]
                            /\ UNCHANGED regroupedMemoryItems
                       ELSE /\ regroupedMemoryItems' =
                                 Append(regroupedMemoryItems, lastGroup)
                            /\ lastGroup' =
                                 [type |-> "assistant", toolCalls |-> <<memoryItem>>]
  /\ pos' = pos + 1
  /\ UNCHANGED <<config, pc, query, instructions, memoryItems, tools, outcome,
                 roleMapperCalls, callContext>>

\* Mutant of IterToolCall: a tool call always closes the open group and
\* starts a group of its own.
IterToolCall_AlwaysNewGroup ==
  /\ pc = "loop"
  /\ pos <= Len(Contents(query))
  /\ Contents(query)[pos].type = "tool-call"
  /\ LET memoryItem == Contents(query)[pos] IN
       IF lastGroup = NullGroup
         THEN /\ lastGroup' = [type |-> "assistant", toolCalls |-> <<memoryItem>>]
              /\ UNCHANGED regroupedMemoryItems
         ELSE /\ regroupedMemoryItems' = Append(regroupedMemoryItems, lastGroup)
              /\ lastGroup' = [type |-> "assistant", toolCalls |-> <<memoryItem>>]
  /\ pos' = pos + 1
  /\ UNCHANGED <<config, pc, query, instructions, memoryItems, tools, outcome,
                 roleMapperCalls, callContext>>

IterToolCall ==
  /\ pc = "loop"
  /\ pos <= Len(Contents(query))
  /\ Contents(query)[pos].type = "tool-call"
  /\ LET memoryItem == Contents(query)[pos] IN
       IF lastGroup = NullGroup
         THEN /\ lastGroup' = [type |-> "assistant", toolCalls |-> <<memoryItem>>]
              /\ UNCHANGED regroupedMemoryItems
         ELSE IF lastGroup.type = "assistant"
                THEN /\ lastGroup' =
                          [lastGroup EXCEPT !.toolCalls = Append(@, memoryItem)]
                     /\ UNCHANGED regroupedMemoryItems
                ELSE /\ regroupedMemoryItems' = Append(regroupedMemoryItems, lastGroup)
                     /\ lastGroup' = [type |-> "assistant", toolCalls |-> <<memoryItem>>]
  /\ pos' = pos + 1
  /\ UNCHANGED <<config, pc, query, instructions, memoryItems, tools, outcome,
                 roleMapperCalls, callContext>>

\* One iteration of the loop, case 'tool-call-result'.
\* Mutant of IterToolCallResult: a result that joins the open group of
\* results also pushes that group, which stays open.
IterToolCallResult_PushesOpenGroup ==
  /\ pc = "loop"
  /\ pos <= Len(Contents(query))
  /\ Contents(query)[pos].type = "tool-call-result"
  /\ LET memoryItem == Contents(query)[pos] IN
       IF IsOrphanResult(lastGroup)
         THEN /\ Throw("Memory starts with a tool call result without its corresponding call. Tool call id: "
                       \o memoryItem.toolCallId)
              /\ UNCHANGED <<lastGroup, regroupedMemoryItems, pos>>
         ELSE /\ IF lastGroup.type = "tool-call-result"
                   THEN /\ lastGroup' =
                             [lastGroup EXCEPT !.toolCallResults = Append(@, memoryItem)]
                        /\ regroupedMemoryItems' =
                             Append(regroupedMemoryItems, lastGroup')
                   ELSE /\ regroupedMemoryItems' = Append(regroupedMemoryItems, lastGroup)
                        /\ lastGroup' = [type |-> "tool-call-result",
                                         toolCallResults |-> <<memoryItem>>]
              /\ pos' = pos + 1
              /\ UNCHANGED <<pc, outcome>>
  /\ UNCHANGED <<config, query, instructions, memoryItems, tools, roleMapperCalls,
                 callContext>>

\* Mutant of IterToolCallResult: every result closes the open group and
\* starts a group of its own.
IterToolCallResult_AlwaysNewGroup ==
  /\ pc = "loop"
  /\ pos <= Len(Contents(query))
  /\ Contents(query)[pos].type = "tool-call-result"
  /\ LET memoryItem == Contents(query)[pos] IN
       IF IsOrphanResult(lastGroup)
         THEN /\ Throw("Memory starts with a tool call result without its corresponding call. Tool call id: "
                       \o memoryItem.toolCallId)
              /\ UNCHANGED <<lastGroup, regroupedMemoryItems, pos>>
         ELSE /\ regroupedMemoryItems' = Append(regroupedMemoryItems, lastGroup)
              /\ lastGroup' = [type |-> "tool-call-result",
                               toolCallResults |-> <<memoryItem>>]
              /\ pos' = pos + 1
              /\ UNCHANGED <<pc, outcome>>
  /\ UNCHANGED <<config, query, instructions, memoryItems, tools, roleMapperCalls,
                 callContext>>

IterToolCallResult ==
  /\ pc = "loop"
  /\ pos <= Len(Contents(query))
  /\ Contents(query)[pos].type = "tool-call-result"
  /\ LET memoryItem == Contents(query)[pos] IN
       IF IsOrphanResult(lastGroup)
         THEN /\ Throw("Memory starts with a tool call result without its corresponding call. Tool call id: "
                       \o memoryItem.toolCallId)
              /\ UNCHANGED <<lastGroup, regroupedMemoryItems, pos>>
         ELSE /\ IF lastGroup.type = "tool-call-result"
                   THEN /\ lastGroup' =
                             [lastGroup EXCEPT !.toolCallResults = Append(@, memoryItem)]
                        /\ UNCHANGED regroupedMemoryItems
                   ELSE /\ regroupedMemoryItems' = Append(regroupedMemoryItems, lastGroup)
                        /\ lastGroup' = [type |-> "tool-call-result",
                                         toolCallResults |-> <<memoryItem>>]
              /\ pos' = pos + 1
              /\ UNCHANGED <<pc, outcome>>
  /\ UNCHANGED <<config, query, instructions, memoryItems, tools, roleMapperCalls,
                 callContext>>

\* Mutant of IterUnexpected: the loop does not move on from an item of an
\* unknown type.
IterUnexpected_StaysOnItem ==
  /\ pc = "loop"
  /\ pos <= Len(Contents(query))
  /\ Contents(query)[pos].type \notin {"utterance", "tool-call", "tool-call-result"}
  /\ pos' = pos
  /\ UNCHANGED <<config, pc, query, instructions, lastGroup, regroupedMemoryItems,
                 memoryItems, tools, outcome, roleMapperCalls, callContext>>

\* Mutant of IterUnexpected: the switch has no default case and the item is
\* skipped.
IterUnexpected_Skips ==
  /\ pc = "loop"
  /\ pos <= Len(Contents(query))
  /\ Contents(query)[pos].type \notin {"utterance", "tool-call", "tool-call-result"}
  /\ pos' = pos + 1
  /\ UNCHANGED <<config, pc, query, instructions, lastGroup, regroupedMemoryItems,
                 memoryItems, tools, outcome, roleMapperCalls, callContext>>

\* One iteration of the loop, default case.
IterUnexpected ==
  /\ pc = "loop"
  /\ pos <= Len(Contents(query))
  /\ Contents(query)[pos].type \notin {"utterance", "tool-call", "tool-call-result"}
  /\ Throw("Unexpected memory type: " \o Contents(query)[pos].type)
  /\ UNCHANGED <<config, query, instructions, pos, lastGroup, regroupedMemoryItems,
                 memoryItems, tools, roleMapperCalls, callContext>>

\* Mutant of EndLoop: the loop has taken the items out of the memory of the
\* query, which is empty when the loop ends.
EndLoop_ConsumesMemory ==
  /\ pc = "loop"
  /\ pos > Len(Contents(query))
  /\ LET groups == IF lastGroup # NullGroup
                     THEN Append(regroupedMemoryItems, lastGroup)
                     ELSE regroupedMemoryItems IN
       /\ regroupedMemoryItems' = groups
       /\ query' = IF "memory" \in DOMAIN query
                     THEN [query EXCEPT !.memory = [contents |-> <<>>]]
                     ELSE query
       /\ IF HasUnknownGroup(groups)
            THEN /\ Throw("Internal error in AzureOpenAIChatCompletionsJsonFormatter.")
                 /\ UNCHANGED memoryItems
            ELSE /\ memoryItems' = SynthesizeMessages(instructionsRole, instructions, groups)
                 /\ pc' = "tools"
                 /\ UNCHANGED outcome
  /\ UNCHANGED <<config, instructions, pos, lastGroup, tools, roleMapperCalls,
                 callContext>>

\* Mutant of EndLoop: the group that is still open when the loop ends is not
\* pushed.
EndLoop_DropsOpenGroup ==
  /\ pc = "loop"
  /\ pos > Len(Contents(query))
  /\ LET groups == regroupedMemoryItems IN
       /\ regroupedMemoryItems' = groups
       /\ IF HasUnknownGroup(groups)
            THEN /\ Throw("Internal error in AzureOpenAIChatCompletionsJsonFormatter.")
                 /\ UNCHANGED memoryItems
            ELSE /\ memoryItems' = SynthesizeMessages(instructionsRole, instructions, groups)
                 /\ pc' = "tools"
                 /\ UNCHANGED outcome
  /\ UNCHANGED <<config, query, instructions, pos, lastGroup, tools, roleMapperCalls,
                 callContext>>

\* The loop is over: the open group is pushed, the messages are built and
\* formatMemoryItems returns them.
EndLoop ==
  /\ pc = "loop"
  /\ pos > Len(Contents(query))
  /\ LET groups == IF lastGroup # NullGroup
                     THEN Append(regroupedMemoryItems, lastGroup)
                     ELSE regroupedMemoryItems IN
       /\ regroupedMemoryItems' = groups
       /\ IF HasUnknownGroup(groups)
            THEN /\ Throw("Internal error in AzureOpenAIChatCompletionsJsonFormatter.")
                 /\ UNCHANGED memoryItems
            ELSE /\ memoryItems' = SynthesizeMessages(instructionsRole, instructions, groups)
                 /\ pc' = "tools"
                 /\ UNCHANGED outcome
  /\ UNCHANGED <<config, query, instructions, pos, lastGroup, tools, roleMapperCalls,
                 callContext>>

\* const tools = this.formatTools(query)
FormatTools ==
  /\ pc = "tools"
  /\ tools' = formatTools(query)
  /\ pc' = "output"
  /\ UNCHANGED <<config, query, instructions, pos, lastGroup, regroupedMemoryItems,
                 memoryItems, outcome, roleMapperCalls, callContext>>

\* Mutant of OutputSwitch: the switch has no default case and any other
\* output type is treated as text.
OutputSwitch_NoDefault ==
  /\ pc = "output"
  /\ IF query.output.type = "output-json"
       THEN LET responseJsonSchema == formatJsonSchema(query.output) IN
            IF responseJsonSchema.status = "thrown"
              THEN Throw(responseJsonSchema.message)
              ELSE /\ outcome' = Returned(AssembleResult(memoryItems,
                                                         responseJsonSchema.value, tools))
                   /\ pc' = "returned"
       ELSE /\ outcome' = Returned(AssembleResult(memoryItems, UndefinedSchema, tools))
            /\ pc' = "returned"
  /\ UNCHANGED <<config, query, instructions, pos, lastGroup, regroupedMemoryItems,
                 memoryItems, tools, roleMapperCalls, callContext>>

\* switch (query.output.type) and the return statement
OutputSwitch ==
  /\ pc = "output"
  /\ CASE query.output.type = "output-text" ->
            /\ outcome' = Returned(AssembleResult(memoryItems, UndefinedSchema, tools))
            /\ pc' = "returned"
       [] query.output.type = "output-json" ->
            LET responseJsonSchema == formatJsonSchema(query.output) IN
            IF responseJsonSchema.status = "thrown"
              THEN Throw(responseJsonSchema.message)
              ELSE /\ outcome' = Returned(AssembleResult(memoryItems,
                                                         responseJsonSchema.value, tools))
                   /\ pc' = "returned"
       [] OTHER -> Throw("Unknown output type: " \o query.output.type)
  /\ UNCHANGED <<config, query, instructions, pos, lastGroup, regroupedMemoryItems,
                 memoryItems, tools, roleMapperCalls, callContext>>

\* The caller has the outcome; the locals of the call are gone and the
\* instance is ready for the next call.
Finish ==
  /\ pc \in {"returned", "thrown"}
  /\ pc' = "idle"
  /\ query' = NoQuery
  /\ instructions' = ""
  /\ pos' = 1
  /\ lastGroup' = NullGroup
  /\ regroupedMemoryItems' = <<>>
  /\ memoryItems' = <<>>
  /\ tools' = <<>>
  /\ outcome' = NoOutcome
  /\ roleMapperCalls' = <<>>
  /\ paramsArg' = Omitted
  /\ params' = EmptyObject
  /\ UNCHANGED <<config, overlapped, suspended, completed>>

Next ==
  \/ Call
  \/ IterUtterance
  \/ IterToolCall
  \/ IterToolCallResult
  \/ IterUnexpected
  \/ EndLoop
  \/ FormatTools
  \/ OutputSwitch
  \/ Finish

Spec == Init /\ [][Next]_vars

\* ------------------------------------------------------------------------
\* Several calls on one instance: one after the other, with and without
\* the second argument, and two calls whose steps are interleaved
\* ------------------------------------------------------------------------

\* format(query), format(query, undefined), format(query, {})
ParamsArgs == {Omitted, Undefined, EmptyObject}

\* The queries of the calls that are recorded: the same memory with text and
\* with json output, a tool round trip with a tool registry, a memory that
\* fails, an output type that fails.
RepeatQueries ==
  { [prompt |-> "Explain X",
     memory |-> [contents |-> <<[type |-> "utterance", role |-> "user", contents |-> "hi"]>>],
     output |-> [type |-> "output-text"]],
    [prompt |-> "Explain X",
     memory |-> [contents |-> <<[type |-> "utterance", role |-> "user", contents |-> "hi"]>>],
     output |-> [type |-> "output-json", schema |-> "S", schemaName |-> "TestSchema"]],
    [prompt |-> "Answer Y",
     memory |-> [contents |->
       <<[type |-> "tool-call", toolName |-> "t1", toolCallId |-> "c1", arguments |-> "{}"],
         [type |-> "tool-call-result", toolCallId |-> "c1", result |-> "r1"]>>],
     tools |-> <<ToolA>>,
     output |-> [type |-> "output-text"]],
    [prompt |-> "Explain X",
     memory |-> [contents |->
       <<[type |-> "utterance", role |-> "narrator", contents |-> "hm"],
         [type |-> "snapshot"]>>],
     output |-> [type |-> "output-text"]],
    [prompt |-> "Answer Y", output |-> [type |-> "unknown-output-type"]] }

\* the locals of the call in progress
Frame ==
  [pc |-> pc, query |-> query, paramsArg |-> paramsArg, params |-> params,
   instructions |-> instructions, pos |-> pos, lastGroup |-> lastGroup,
   regroupedMemoryItems |-> regroupedMemoryItems, memoryItems |-> memoryItems,
   tools |-> tools, outcome |-> outcome, roleMapperCalls |-> roleMapperCalls]

\* Mutant of EnterFormat: the list of groups is a field of the instance that
\* the constructor creates, and a call goes on with what it finds in it.
EnterFormat_KeepsGroups(q, arg) ==
  /\ query' = q
  /\ paramsArg' = arg
  /\ params' = DefaultParams(arg)
  /\ instructions' = CallInstructionsFormatter(instructionsFormatter, q)
  /\ pos' = 1
  /\ lastGroup' = NullGroup
  /\ regroupedMemoryItems' = regroupedMemoryItems
  /\ memoryItems' = <<>>
  /\ tools' = <<>>
  /\ outcome' = NoOutcome
  /\ roleMapperCalls' = <<>>
  /\ pc' = "loop"

\* Mutant of EnterFormat: the second parameter has no default and a property
\* of it is read, which throws when the argument is undefined.
EnterFormat_NoParamsDefault(q, arg) ==
  /\ query' = q
  /\ paramsArg' = arg
  /\ params' = arg
  /\ instructions' = CallInstructionsFormatter(instructionsFormatter, q)
  /\ pos' = 1
  /\ lastGroup' = NullGroup
  /\ regroupedMemoryItems' = <<>>
  /\ memoryItems' = <<>>
  /\ tools' = <<>>
  /\ roleMapperCalls' = <<>>
  /\ IF arg \in {Omitted, Undefined}
       THEN /\ outcome' = Thrown("Cannot read properties of undefined")
            /\ pc' = "thrown"
       ELSE /\ outcome' = NoOutcome
            /\ pc' = "loop"

\* format(q, arg) is entered: the parameters are bound and formatMemoryItems
\* runs up to the for loop, with locals of its own.
EnterFormat(q, arg) ==
  /\ query' = q
  /\ paramsArg' = arg
  /\ params' = DefaultParams(arg)
  /\ instructions' = CallInstructionsFormatter(instructionsFormatter, q)
  /\ pos' = 1
  /\ lastGroup' = NullGroup
  /\ regroupedMemoryItems' = <<>>
  /\ memoryItems' = <<>>
  /\ tools' = <<>>
  /\ outcome' = NoOutcome
  /\ roleMapperCalls' = <<>>
  /\ pc' = "loop"

\* A call while no other call is in progress.
CallWithParams ==
  /\ pc = "idle"
  /\ suspended = NoCall
  /\ Len(completed) < MaxCalls
  /\ \E q \in RepeatQueries, arg \in ParamsArgs : EnterFormat(q, arg)
  /\ overlapped' = FALSE
  /\ UNCHANGED <<config, suspended, completed>>

\* format(query) while no other call is in progress.
CallAlone ==
  /\ pc = "idle"
  /\ suspended = NoCall
  /\ Len(completed) < MaxCalls
  /\ \E q \in RepeatQueries : EnterFormat(q, Omitted)
  /\ overlapped' = FALSE
  /\ UNCHANGED <<config, suspended, completed>>

\* format(query) while another call is in progress: the locals of that call
\* are set aside and the new call starts.
CallConcurrent ==
  /\ pc \in {"loop", "tools", "output"}
  /\ suspended = NoCall
  /\ Len(completed) + 1 < MaxCalls
  /\ suspended' = Frame
  /\ \E q \in RepeatQueries : EnterFormat(q, Omitted)
  /\ overlapped' = TRUE
  /\ UNCHANGED <<config, completed>>

\* Mutant of Switch: the slot of the current group and the list of groups
\* are fields of the instance, shared by the calls in progress.
Switch_SharedGroups ==
  /\ pc \in {"loop", "tools", "output"}
  /\ suspended # NoCall
  /\ suspended' = [Frame EXCEPT !.lastGroup = suspended.lastGroup,
                                !.regroupedMemoryItems = suspended.regroupedMemoryItems]
  /\ pc' = suspended.pc
  /\ query' = suspended.query
  /\ paramsArg' = suspended.paramsArg
  /\ params' = suspended.params
  /\ instructions' = suspended.instructions
  /\ pos' = suspended.pos
  /\ lastGroup' = lastGroup
  /\ regroupedMemoryItems' = regroupedMemoryItems
  /\ memoryItems' = suspended.memoryItems
  /\ tools' = suspended.tools
  /\ outcome' = suspended.outcome
  /\ roleMapperCalls' = suspended.roleMapperCalls
  /\ overlapped' = TRUE
  /\ UNCHANGED <<config, completed>>

\* The next step is taken by the other call in progress: the two calls
\* change places, each with its own locals.
Switch ==
  /\ pc \in {"loop", "tools", "output"}
  /\ suspended # NoCall
  /\ suspended' = Frame
  /\ pc' = suspended.pc
  /\ query' = suspended.query
  /\ paramsArg' = suspended.paramsArg
  /\ params' = suspended.params
  /\ instructions' = suspended.instructions
  /\ pos' = suspended.pos
  /\ lastGroup' = suspended.lastGroup
  /\ regroupedMemoryItems' = suspended.regroupedMemoryItems
  /\ memoryItems' = suspended.memoryItems
  /\ tools' = suspended.tools
  /\ outcome' = suspended.outcome
  /\ roleMapperCalls' = suspended.roleMapperCalls
  /\ overlapped' = TRUE
  /\ UNCHANGED <<config, completed>>

\* One of two calls has ended: the other goes on.
Resume ==
  /\ pc = "idle"
  /\ suspended # NoCall
  /\ suspended' = NoCall
  /\ pc' = suspended.pc
  /\ query' = suspended.query
  /\ paramsArg' = suspended.paramsArg
  /\ params' = suspended.params
  /\ instructions' = suspended.instructions
  /\ pos' = suspended.pos
  /\ lastGroup' = suspended.lastGroup
  /\ regroupedMemoryItems' = suspended.regroupedMemoryItems
  /\ memoryItems' = suspended.memoryItems
  /\ tools' = suspended.tools
  /\ outcome' = suspended.outcome
  /\ roleMapperCalls' = suspended.roleMapperCalls
  /\ overlapped' = TRUE
  /\ UNCHANGED <<config, completed>>

\* The caller has the outcome and records it.  The locals of the call that
\* ended are unreachable; they stay as they are until the next call sets up
\* its own.
FinishRecorded ==
  /\ pc \in {"returned", "thrown"}
  /\ pc' = "idle"
  /\ completed' = Append(completed, [query |-> query, paramsArg |-> paramsArg,
                                     outcome |-> outcome, overlapped |-> overlapped])
  /\ UNCHANGED <<config, query, paramsArg, params, instructions, pos, lastGroup,
                 regroupedMemoryItems, memoryItems, tools, outcome, roleMapperCalls,
                 overlapped, suspended>>

NextCalls ==
  \/ CallWithParams
  \/ IterUtterance
  \/ IterToolCall
  \/ IterToolCallResult
  \/ IterUnexpected
  \/ EndLoop
  \/ FormatTools
  \/ OutputSwitch
  \/ FinishRecorded

\* calls one after the other, with and without the second argument
SpecCalls == Init /\ [][NextCalls]_vars

NextConcurrent ==
  \/ CallAlone
  \/ CallConcurrent
  \/ Switch
  \/ Resume
  \/ IterUtterance
  \/ IterToolCall
  \/ IterToolCallResult
  \/ IterUnexpected
  \/ EndLoop
  \/ FormatTools
  \/ OutputSwitch
  \/ FinishRecorded

\* calls whose steps are interleaved
SpecConcurrent == Init /\ [][NextConcurrent]_vars

\* ------------------------------------------------------------------------
\* AzureOpenAIChatCompletionsJsonFormatter, the formatter for queries with
\* json output (azure-openai-chat-completions-json-formatter.ts)
\* ------------------------------------------------------------------------

\* ALL_CHAT_COMPLETION_ROLES, a plain object: its own properties
ALL_CHAT_COMPLETION_ROLES ==
  [role \in {"user", "assistant", "system", "developer", "function", "tool"} |-> TRUE]

\* UTTERANCE_ROLES, a plain object: its own properties
UTTERANCE_ROLES ==
  [role \in {"user", "assistant", "system", "developer", "function", "tool"} |->
     role \in {"user", "assistant"}]

\* the names a plain object inherits from Object.prototype; the value found
\* under each of them is a function or an object
ObjectPrototypeNames ==
  {"constructor", "toString", "toLocaleString", "valueOf", "hasOwnProperty",
   "isPrototypeOf", "propertyIsEnumerable", "__proto__", "__defineGetter__",
   "__defineSetter__", "__lookupGetter__", "__lookupSetter__"}

\* object[key] is truthy: an own property that is true, or an inherited one
PropertyIsTruthy(object, key) ==
  IF key \in DOMAIN object
    THEN object[key]
    ELSE key \in ObjectPrototypeNames

\* identityRoleMapper of the JSON formatter
JsonIdentityRoleMapper(sourceRole) ==
  IF PropertyIsTruthy(ALL_CHAT_COMPLETION_ROLES, sourceRole)
    THEN Returned(sourceRole)
    ELSE Thrown("Unknown role: " \o sourceRole)

\* this.roleMapper(item.role, item.name) in the JSON formatter
JsonCallRoleMapper(mapper, sourceRole, name) ==
  CASE mapper = "jsonIdentityRoleMapper" -> JsonIdentityRoleMapper(sourceRole)
    [] mapper = "swapRoleMapper" ->
         Returned(IF sourceRole = "user" THEN "assistant" ELSE "user")
    [] mapper = "systemRoleMapper" -> Returned("system")

\* the callback of (query.memory?.contents || []).map
JsonFormatItem(mapper, item) ==
  IF item.type = "utterance"
    THEN LET mapped == JsonCallRoleMapper(mapper, item.role, NameOf(item)) IN
         IF mapped.status = "thrown"
           THEN mapped
           ELSE IF ~PropertyIsTruthy(UTTERANCE_ROLES, mapped.value)
             THEN Thrown("Role mapping for '" \o item.role
                         \o "' resulted in unknown utterance role: " \o mapped.value)
             ELSE IF "name" \in DOMAIN item /\ item.name # ""
               THEN Returned([role |-> mapped.value, name |-> item.name,
                              content |-> item.contents])
               ELSE Returned([role |-> mapped.value, content |-> item.contents])
    ELSE Thrown("Unknown memory item type: " \o item.type)

\* the map over the memory items: the messages, or the first error
RECURSIVE JsonMapItems(_, _)
JsonMapItems(mapper, items) ==
  IF items = <<>> THEN Returned(<<>>)
  ELSE LET first == JsonFormatItem(mapper, Head(items)) IN
       IF first.status = "thrown"
         THEN first
         ELSE LET rest == JsonMapItems(mapper, Tail(items)) IN
              IF rest.status = "thrown"
                THEN rest
                ELSE Returned(<<first.value>> \o rest.value)

\* the calls of this.roleMapper the map makes: one for every utterance it
\* comes to, up to the item that throws
RECURSIVE JsonMapperCalls(_, _)
JsonMapperCalls(mapper, items) ==
  IF items = <<>> THEN <<>>
  ELSE LET item == Head(items) IN
       IF item.type # "utterance"
         THEN <<>>
         ELSE <<<<item.role, NameOf(item)>>>> \o
                (IF JsonFormatItem(mapper, item).status = "thrown"
                   THEN <<>>
                   ELSE JsonMapperCalls(mapper, Tail(items)))

\* the queries of the calls of the JSON formatter: those of the other
\* formatter, and queries with an utterance whose role is a name every
\* object has
JsonQueries ==
  Queries
  \cup { [prompt |-> "Explain X", memory |-> [contents |-> m], output |-> o]
           : m \in { <<[type |-> "utterance", role |-> "constructor", contents |-> "hi"]>>,
                     <<[type |-> "utterance", role |-> "user", contents |-> "hi"],
                       [type |-> "utterance", role |-> "toString", name |-> "bob",
                        contents |-> "yo"]>> },
             o \in Outputs }

\* Mutant of JsonFormatJsonSchema: the conditional always takes its second
\* branch and the message does not say which output type was found.
JsonFormatJsonSchema_NoTag(q) ==
  IF "output" \notin DOMAIN q
    THEN Thrown("output is left as default (text)")
    ELSE IF q.output.type # "output-json"
      THEN Thrown("output is left as default (text)")
      ELSE Returned(zodResponseFormat(q.output))

\* formatJsonSchema of the JSON formatter, given the query.  The message of
\* its error is built as in the other formatter: the condition of the
\* conditional is (text + output) !== undefined, always true, so the message
\* is `got '${output.type}'`, and reading output.type throws a TypeError when
\* the query has no output.
JsonFormatJsonSchema(q) ==
  IF "output" \notin DOMAIN q
    THEN Thrown("Cannot read properties of undefined (reading 'type')")
    ELSE IF q.output.type # "output-json"
      THEN Thrown("got '" \o q.output.type \o "'")
      ELSE Returned(zodResponseFormat(q.output))

\* the constructor of the JSON formatter
InitJson ==
  /\ \E arg \in ConfigArgs :
       /\ configArg = arg
       /\ instructionsRole =
            IF arg.instructionsRole = Undefined THEN DEFAULT_INSTRUCTIONS_ROLE
            ELSE arg.instructionsRole
       /\ instructionsFormatter =
            IF arg.instructionsFormatter = Undefined THEN "textualMarkdownFormatter"
            ELSE arg.instructionsFormatter
       /\ roleMapper =
            IF arg.roleMapper = Undefined THEN "jsonIdentityRoleMapper" ELSE arg.roleMapper
  /\ pc = "idle"
  /\ query = NoQuery
  /\ instructions = ""
  /\ pos = 1
  /\ lastGroup = NullGroup
  /\ regroupedMemoryItems = <<>>
  /\ memoryItems = <<>>
  /\ tools = <<>>
  /\ outcome = NoOutcome
  /\ roleMapperCalls = <<>>
  /\ paramsArg = Omitted
  /\ params = EmptyObject
  /\ overlapped = FALSE
  /\ suspended = NoCall
  /\ completed = <<>>

\* format is entered and formatMemoryItems runs: the instructions message
\* followed by the message of every memory item, or the first error.
JsonFormatMemoryItems ==
  /\ pc = "idle"
  /\ \E q \in JsonQueries :
       LET mapped == JsonMapItems(roleMapper, Contents(q)) IN
       /\ query' = q
       /\ roleMapperCalls' = JsonMapperCalls(roleMapper, Contents(q))
       /\ instructions' = CallInstructionsFormatter(instructionsFormatter, q)
       /\ IF mapped.status = "thrown"
            THEN /\ Throw(mapped.message)
                 /\ UNCHANGED memoryItems
            ELSE /\ memoryItems' =
                      <<[role |-> instructionsRole,
                         content |-> CallInstructionsFormatter(instructionsFormatter, q)]>>
                        \o mapped.value
                 /\ pc' = "schema"
                 /\ UNCHANGED outcome
  /\ paramsArg' = Omitted
  /\ params' = DefaultParams(Omitted)
  /\ UNCHANGED <<config, pos, lastGroup, regroupedMemoryItems, tools,
                 overlapped, suspended, completed>>

\* formatJsonSchema and the return statement: messages and response_format
JsonReturn ==
  /\ pc = "schema"
  /\ LET responseJsonSchema == JsonFormatJsonSchema(query) IN
       IF responseJsonSchema.status = "thrown"
         THEN Throw(responseJsonSchema.message)
         ELSE /\ outcome' = Returned([messages |-> memoryItems,
                                      response_format |-> responseJsonSchema.value])
              /\ pc' = "returned"
  /\ UNCHANGED <<config, query, instructions, pos, lastGroup, regroupedMemoryItems,
                 memoryItems, tools, roleMapperCalls, callContext>>

NextJson ==
  \/ JsonFormatMemoryItems
  \/ JsonReturn
  \/ Finish

SpecJson == InitJson /\ [][NextJson]_vars

\* ------------------------------------------------------------------------
\* Properties
\* ------------------------------------------------------------------------

\* the memory items of the query of the current call
Items == Contents(query)

\* the role the configured mapper gives an utterance, "" when it throws
MappedRole(memoryItem) ==
  LET mapped == CallRoleMapper(roleMapper, memoryItem.role, NameOf(memoryItem)) IN
  IF mapped.status = "returned" THEN mapped.value ELSE ""

\* the groups closed so far: regroupedMemoryItems without the group that is
\* still in lastGroup (EndLoop pushes it)
ClosedGroups ==
  IF pc = "loop" \/ lastGroup = NullGroup
    THEN regroupedMemoryItems
    ELSE SubSeq(regroupedMemoryItems, 1, Len(regroupedMemoryItems) - 1)

\* C1: every successful format returns non-empty messages whose first message
\* is {role: the configured instructionsRole, 'system' when the constructor
\* was given none; content: what the instructions formatter returns for the
\* query}, whatever the memory is; with absent or empty memory messages has
\* length 1.
C1_InstructionsMessageFirst ==
  pc = "returned" =>
    LET messages == outcome.value.messages IN
    /\ Len(messages) >= 1
    /\ messages[1] =
         [role |-> IF configArg.instructionsRole = Undefined
                     THEN "system" ELSE configArg.instructionsRole,
          content |-> CallInstructionsFormatter(instructionsFormatter, query)]
    /\ (Items = <<>> => Len(messages) = 1)

\* a successful call with a configured role, a custom formatter and memory
C1_Witness ==
  /\ pc = "returned"
  /\ configArg.instructionsRole = "developer"
  /\ Len(Items) = MaxLen
  /\ outcome.value.messages[1] = [role |-> "developer", content |-> "custom instructions"]

\* the memory holds only utterances, each mapped to 'user' or 'assistant'
C2_Case ==
  \A i \in 1..Len(Items) :
    /\ Items[i].type = "utterance"
    /\ MappedRole(Items[i]) \in SUPPORTED_ROLES

\* C2: for a memory of utterances only, all mapped to 'user' or 'assistant',
\* the memory never makes format fail and messages has length 1 + the number
\* of utterances; message i+1 carries the mapped role and the text of the
\* i-th utterance, so no two utterances are merged.
C2_UtterancesOneMessageEach ==
  C2_Case =>
    /\ (pc = "thrown" =>
          query.output.type \notin {"output-text", "output-json"})
    /\ (pc = "returned" =>
          LET messages == outcome.value.messages IN
          /\ Len(messages) = 1 + Len(Items)
          /\ \A i \in 1..Len(Items) :
               /\ messages[i + 1].role = MappedRole(Items[i])
               /\ messages[i + 1].content = Items[i].contents)

\* a successful call whose memory has consecutive utterances of one mapped role
C2_Witness ==
  /\ pc = "returned"
  /\ C2_Case
  /\ Len(Items) = MaxLen
  /\ \E i \in 1..(Len(Items) - 1) :
       MappedRole(Items[i]) = "assistant" /\ MappedRole(Items[i + 1]) = "assistant"

\* the tool call at position k opened its assistant group: the memory starts
\* with it, or the group before it was a tool-result group or a user group
ToolCallOpenedGroup(k) ==
  \/ k = 1
  \/ /\ k > 1
     /\ Items[k - 1].type = "tool-call-result"
  \/ /\ k > 1
     /\ Items[k - 1].type = "utterance"
     /\ ClosedGroups # <<>>
     /\ ClosedGroups[Len(ClosedGroups)] = [type |-> "user", utteranceItem |-> Items[k - 1]]

\* the loop has just consumed a tool call that opened a group and, right
\* after it, an utterance of the mapped role 'assistant'
C3_Case ==
  /\ pc \in {"loop", "tools", "output", "returned"}
  /\ pos >= 3
  /\ Items[pos - 1].type = "utterance"
  /\ MappedRole(Items[pos - 1]) = "assistant"
  /\ Items[pos - 2].type = "tool-call"
  /\ ToolCallOpenedGroup(pos - 2)

\* C3: a tool call that opens an assistant turn and is immediately followed
\* by an utterance of the mapped role 'assistant' gives one assistant group,
\* hence one assistant message with the utterance's text as content and the
\* call in tool_calls; the utterance closes no group and opens none.
C3_ToolCallThenUtteranceMerged ==
  C3_Case =>
    /\ lastGroup = [type |-> "assistant", utteranceItem |-> Items[pos - 1],
                    toolCalls |-> <<Items[pos - 2]>>]
    /\ (pos - 2 = 1 => ClosedGroups = <<>>)
    /\ (pc = "returned" /\ pos > Len(Items) =>
          LET messages == outcome.value.messages IN
          /\ messages[Len(messages)] =
               [role |-> "assistant",
                content |-> Items[pos - 1].contents,
                tool_calls |-> <<[id |-> Items[pos - 2].toolCallId,
                                  type |-> "function",
                                  function |-> [name |-> Items[pos - 2].toolName,
                                                arguments |-> Items[pos - 2].arguments]]>>]
          /\ (Len(Items) = 2 => Len(messages) = 2))

\* a successful call whose memory ends with such a pair after a user turn
C3_Witness ==
  /\ C3_Case
  /\ pc = "returned"
  /\ pos = 4
  /\ Items[1].type = "utterance"
  /\ Len(outcome.value.messages) = 3

\* the positions of the tool call results in the memory
ResultPositions == { i \in 1..Len(Items) : Items[i].type = "tool-call-result" }

\* the indexes of the messages with role 'tool'
ToolMessageIndexes(messages) == { t \in 1..Len(messages) : messages[t].role = "tool" }

\* how many elements of S are at or before i
Rank(S, i) == Cardinality({ j \in S : j <= i })

\* the index of the tool message of the result at position i: the k-th tool
\* message for the k-th result; 0 when there is none
MessageOfResult(messages, i) ==
  LET candidates == { t \in ToolMessageIndexes(messages) :
                        Rank(ToolMessageIndexes(messages), t) = Rank(ResultPositions, i) } IN
  IF candidates = {} THEN 0 ELSE CHOOSE t \in candidates : TRUE

\* C4: in a successful result the tool messages are, in order, one per tool
\* call result of the memory, each with the call identifier of its result;
\* the messages of two results are adjacent exactly when the results are, so
\* a run of N consecutive results gives N contiguous tool messages.
C4_ResultRunsFanOut ==
  pc = "returned" =>
    LET messages == outcome.value.messages IN
    /\ Cardinality(ToolMessageIndexes(messages)) = Cardinality(ResultPositions)
    /\ \A i \in ResultPositions :
         LET t == MessageOfResult(messages, i) IN
         /\ t > 0
         /\ messages[t].tool_call_id = Items[i].toolCallId
         /\ ((i + 1) \in ResultPositions <=> (t + 1) \in ToolMessageIndexes(messages))

\* a successful call whose memory has a run of two results with different
\* call identifiers after another event
C4_Witness ==
  /\ pc = "returned"
  /\ \E i \in ResultPositions :
       /\ (i + 1) \in ResultPositions
       /\ Items[i].toolCallId # Items[i + 1].toolCallId
       /\ LET messages == outcome.value.messages
              t == MessageOfResult(messages, i) IN
          messages[t].role = "tool" /\ messages[t + 1].role = "tool"

\* the tool call as it is expected in tool_calls
ExpectedToolCall(toolCall) ==
  [id |-> toolCall.toolCallId,
   type |-> "function",
   function |-> [name |-> toolCall.toolName, arguments |-> toolCall.arguments]]

\* memory = [Utterance(user), ToolCall(c), ToolCallResult(c, r), Utterance(assistant)]
\* under the identity role mapper
C5_Case ==
  /\ roleMapper = "identityRoleMapper"
  /\ Len(Items) = 4
  /\ Items[1].type = "utterance" /\ Items[1].role = "user"
  /\ Items[2].type = "tool-call"
  /\ Items[3].type = "tool-call-result"
  /\ Items[3].toolCallId = Items[2].toolCallId
  /\ Items[3].result # Null
  /\ Items[4].type = "utterance" /\ Items[4].role = "assistant"

\* C5: for memory [Utterance(user), ToolCall(c1), ToolCallResult(c1, r1),
\* Utterance(assistant)] format does not fail on the memory and returns,
\* after the instructions message, exactly: a user message, an assistant
\* message with tool_calls = [c1] and no content, a tool message with content
\* r1 and tool_call_id c1, an assistant message with the text of the last
\* utterance and no tool_calls.
C5_ScenarioFourMessages ==
  C5_Case =>
    /\ (pc = "thrown" => query.output.type \notin {"output-text", "output-json"})
    /\ (pc = "returned" =>
          LET messages == outcome.value.messages IN
          /\ Len(messages) = 5
          /\ messages[2].role = "user"
          /\ messages[2].content = Items[1].contents
          /\ messages[3] = [role |-> "assistant",
                            tool_calls |-> <<ExpectedToolCall(Items[2])>>]
          /\ messages[4] = [role |-> "tool", content |-> Items[3].result,
                            tool_call_id |-> Items[3].toolCallId]
          /\ messages[5] = [role |-> "assistant", content |-> Items[4].contents])

\* the scenario has returned
C5_Witness ==
  /\ C5_Case
  /\ pc = "returned"
  /\ Len(outcome.value.messages) = 5

\* a call is running or over whose memory starts with a tool call result
C6_Case ==
  /\ pc # "idle"
  /\ Len(Items) >= 1
  /\ Items[1].type = "tool-call-result"

\* C6: when the first memory item is a tool call result, the call gets no
\* further than that item: it throws the error that names the result's call
\* identifier, and no messages, tools or result are produced, whatever
\* follows the item.
C6_OrphanResultFails ==
  C6_Case =>
    /\ pc \in {"loop", "thrown"}
    /\ pos = 1
    /\ memoryItems = <<>>
    /\ tools = <<>>
    /\ (pc = "loop" => outcome = NoOutcome)
    /\ (pc = "thrown" =>
          outcome =
            [status |-> "thrown",
             message |-> "Memory starts with a tool call result without its corresponding call. Tool call id: "
                         \o Items[1].toolCallId])

\* the error has been thrown for a memory with more items after the result
C6_Witness ==
  /\ C6_Case
  /\ pc = "thrown"
  /\ Len(Items) = MaxLen
  /\ Items[2].type = "tool-call"

\* C7: in a successful result the tool message of a result with payload null
\* has content 'Success', and the tool message of any other result has the
\* payload as content.
C7_NullResultIsSuccess ==
  pc = "returned" =>
    LET messages == outcome.value.messages IN
    \A i \in ResultPositions :
      LET t == MessageOfResult(messages, i) IN
      /\ t > 0
      /\ messages[t].content =
           IF Items[i].result = Null THEN "Success" ELSE Items[i].result

\* a successful call whose memory has a null result and a result with payload
C7_Witness ==
  /\ pc = "returned"
  /\ \E i, j \in ResultPositions :
       /\ Items[i].result = Null
       /\ Items[j].result # Null
       /\ outcome.value.messages[MessageOfResult(outcome.value.messages, i)].content = "Success"

\* the memory has an utterance whose role is neither 'user' nor 'assistant'
HasUnsupportedSourceRole ==
  \E i \in 1..Len(Items) :
    Items[i].type = "utterance" /\ Items[i].role \notin SUPPORTED_ROLES

\* C8: under the identity role mapper, a call whose memory has an utterance
\* with a source role other than 'user' and 'assistant' ends with an error
\* 'Unknown role: <role>' and never with a result.
C8_IdentityRejectsUnknownRole ==
  (roleMapper = "identityRoleMapper" /\ HasUnsupportedSourceRole) =>
     pc # "returned"

\* C9: whenever a call of the role mapper returns a value that is neither
\* 'user' nor 'assistant', format throws 'Only user and assistant utterances
\* are supported...' right there: that call is the last one of the mapper,
\* and there is no result; this holds for the first utterance of the memory
\* and for later ones alike.
C9_UnsupportedMappedRoleFails ==
  \A k \in 1..Len(roleMapperCalls) :
    LET mapped == CallRoleMapper(roleMapper, roleMapperCalls[k][1], roleMapperCalls[k][2]) IN
    (mapped.status = "returned" /\ mapped.value \notin {"user", "assistant"}) =>
      /\ pc = "thrown"
      /\ outcome =
           [status |-> "thrown",
            message |-> "Only user and assistant utterances are supported by AzureOpenAIChatCompletionsJsonFormatter"]
      /\ k = Len(roleMapperCalls)
      /\ memoryItems = <<>>

\* the error has been thrown for an utterance that is not the first item
C9_Witness ==
  /\ pc = "thrown"
  /\ roleMapperCalls # <<>>
  /\ CallRoleMapper(roleMapper, roleMapperCalls[1][1], roleMapperCalls[1][2]).status = "returned"
  /\ CallRoleMapper(roleMapper, roleMapperCalls[1][1], roleMapperCalls[1][2]).value = "system"
  /\ lastGroup # NullGroup
  /\ pos = 3

\* C10: every successful result has a tools field: the empty list when the
\* query has no tool registry or an empty one, and otherwise one definition
\* per registry entry, in order, of type 'function', strict, with the name
\* and the description of the entry.
C10_ToolsAlwaysPresent ==
  pc = "returned" =>
    /\ "tools" \in DOMAIN outcome.value
    /\ LET registry == IF "tools" \in DOMAIN query THEN query.tools ELSE <<>>
           definitions == outcome.value.tools IN
       /\ Len(definitions) = Len(registry)
       /\ \A i \in 1..Len(registry) :
            /\ definitions[i].type = "function"
            /\ definitions[i].function.strict = TRUE
            /\ definitions[i].function.name = registry[i].name
            /\ definitions[i].function.description = registry[i].description

\* a successful call with two tools in the registry
C10_Witness ==
  /\ pc = "returned"
  /\ "tools" \in DOMAIN query
  /\ Len(query.tools) = 2
  /\ Len(outcome.value.tools) = 2

\* the calls recorded so far
Calls == 1..Len(completed)

\* two queries with the same memory for which the configured instructions
\* formatter returns the same text
SameInstructionsAndMemory(q1, q2) ==
  /\ CallInstructionsFormatter(instructionsFormatter, q1)
       = CallInstructionsFormatter(instructionsFormatter, q2)
  /\ Contents(q1) = Contents(q2)

\* C11: in every successful result response_format is absent exactly when
\* the output of the query is tagged 'output-text' and present exactly when
\* it is tagged 'output-json', and then it is a json_schema declaration with
\* the schema name of the query, marked strict; two successful calls with the
\* same instructions and memory return the same messages, whatever their
\* output tags.
C11_ResponseFormatFollowsOutputTag ==
  /\ pc = "returned" =>
       LET result == outcome.value IN
       /\ "response_format" \notin DOMAIN result <=> query.output.type = "output-text"
       /\ "response_format" \in DOMAIN result <=> query.output.type = "output-json"
       /\ "response_format" \in DOMAIN result =>
            /\ result.response_format.type = "json_schema"
            /\ result.response_format.json_schema.name = query.output.schemaName
            /\ result.response_format.json_schema.strict = TRUE
  /\ \A i, j \in Calls :
       ( /\ completed[i].outcome.status = "returned"
         /\ completed[j].outcome.status = "returned"
         /\ SameInstructionsAndMemory(completed[i].query, completed[j].query) )
       => completed[i].outcome.value.messages = completed[j].outcome.value.messages

\* a text call and a json call with the same prompt and memory have both
\* returned, the first without response_format and the second with it
C11_Witness ==
  \E i, j \in Calls :
    /\ completed[i].query.output.type = "output-text"
    /\ completed[j].query.output.type = "output-json"
    /\ completed[i].query.prompt = completed[j].query.prompt
    /\ Contents(completed[i].query) = Contents(completed[j].query)
    /\ Contents(completed[i].query) # <<>>
    /\ completed[i].outcome.status = "returned"
    /\ completed[j].outcome.status = "returned"
    /\ "response_format" \notin DOMAIN completed[i].outcome.value
    /\ "response_format" \in DOMAIN completed[j].outcome.value
    /\ Len(completed[j].outcome.value.messages) = 2

\* the output of the query of the current call has a type format does not know
UnknownOutputType == query.output.type \notin {"output-text", "output-json"}

\* C12, as stated: for a query whose output type is neither
\* 'output-text' nor 'output-json', format fails with 'Unknown output type:
\* <tag>' and returns no result.
C12_UnknownOutputTypeNamed ==
  (pc \in {"returned", "thrown"} /\ UnknownOutputType) =>
    /\ pc = "thrown"
    /\ outcome = Thrown("Unknown output type: " \o query.output.type)

\* C12, amended: for such a query format returns no result; it fails with
\* 'Unknown output type: <tag>' when formatMemoryItems raised no error for
\* the memory of the query, and with the error of the memory otherwise, as
\* the memory is formatted before the output type is looked at.
C12_UnknownOutputTypeFails ==
  (pc \in {"returned", "thrown"} /\ UnknownOutputType) =>
    /\ pc = "thrown"
    /\ outcome.status = "thrown"
    /\ memoryItems # <<>> =>
         outcome = Thrown("Unknown output type: " \o query.output.type)
    /\ memoryItems = <<>> =>
         /\ pos <= Len(Items)
         /\ outcome.message # "Unknown output type: " \o query.output.type

\* a call with a memory item and tools failed in the switch on the output type
C12_Witness ==
  /\ pc = "thrown"
  /\ outcome = Thrown("Unknown output type: unknown-output-type")
  /\ Len(Items) = 1
  /\ Len(memoryItems) = 2
  /\ Len(tools) = 2

\* C13: calls of format with the same query end the same way whatever their
\* second argument is: format(q), format(q, undefined) and format(q, {})
\* return equal results or throw the same error.
C13_ParamsNeverInfluenceOutcome ==
  \A i, j \in Calls :
    ( /\ completed[i].query = completed[j].query
      /\ completed[i].paramsArg # completed[j].paramsArg )
    => completed[i].outcome = completed[j].outcome

\* format(q), format(q, {}) and format(q, undefined) have returned, for a q
\* with json output and a memory
C13_Witness ==
  /\ Len(completed) = 3
  /\ completed[1].paramsArg = Omitted
  /\ completed[2].paramsArg = EmptyObject
  /\ completed[3].paramsArg = Undefined
  /\ completed[1].query = completed[2].query
  /\ completed[1].query = completed[3].query
  /\ completed[1].query.output.type = "output-json"
  /\ Contents(completed[1].query) # <<>>
  /\ completed[3].outcome.status = "returned"
  /\ completed[3].outcome = completed[1].outcome

\* every memory item is an utterance the configured mapper sends to 'user',
\* so that message k + 1 is the message of item k
OnlyUserUtterances ==
  \A k \in 1..Len(Items) :
    Items[k].type = "utterance" /\ MappedRole(Items[k]) = "user"

\* C14: a user message carries a name field exactly when its utterance has a
\* display name that is present and not the empty string, and the field is
\* then that display name; with no name or an empty name the field is
\* omitted.
C14_NameIffNonEmptyDisplayName ==
  (pc = "returned" /\ OnlyUserUtterances) =>
    \A k \in 1..Len(Items) :
      LET message == outcome.value.messages[k + 1]
          utterance == Items[k] IN
      /\ message.role = "user"
      /\ "name" \in DOMAIN message <=>
           ("name" \in DOMAIN utterance /\ utterance.name # "")
      /\ "name" \in DOMAIN message => message.name = utterance.name

\* the step is a call of this.roleMapper
MapperCalled == pc = "loop" /\ roleMapperCalls' # roleMapperCalls

\* C15: every call of the configured role mapper during format passes the
\* role and the name of the utterance the loop is at, the name as undefined
\* when the utterance has none; the group the utterance opens, and so its
\* message, has the role the mapper returned, not the source role: with the
\* mapper that sends 'user' to 'assistant' a user utterance becomes an
\* assistant message with the text of the utterance.
C15_MapperGetsRoleAndName ==
  /\ [][MapperCalled =>
          /\ pos <= Len(Items)
          /\ Items[pos].type = "utterance"
          /\ roleMapperCalls' =
               Append(roleMapperCalls,
                      <<Items[pos].role,
                        IF "name" \in DOMAIN Items[pos] THEN Items[pos].name
                        ELSE Undefined>>)
          /\ pc' = "loop" =>
               /\ lastGroup'.utteranceItem = Items[pos]
               /\ lastGroup'.type =
                    CallRoleMapper(roleMapper, roleMapperCalls'[Len(roleMapperCalls')][1],
                                   roleMapperCalls'[Len(roleMapperCalls')][2]).value]_vars
  /\ [](( /\ pc = "returned"
          /\ roleMapper = "swapRoleMapper"
          /\ Len(Items) = 1
          /\ Items[1].type = "utterance"
          /\ Items[1].role = "user" )
        => outcome.value.messages[2] =
             [role |-> "assistant", content |-> Items[1].contents])

\* with the mapper that sends 'user' to 'assistant', a call whose memory is a
\* user utterance without a name has returned: the mapper was called once,
\* with ('user', undefined), and the message is an assistant message
C15_Witness ==
  /\ pc = "returned"
  /\ roleMapper = "swapRoleMapper"
  /\ Len(Items) = 1
  /\ Items[1].type = "utterance"
  /\ Items[1].role = "user"
  /\ "name" \notin DOMAIN Items[1]
  /\ roleMapperCalls = << <<"user", Undefined>> >>
  /\ outcome.value.messages[2].role = "assistant"

\* the fields of the instance are what the constructor made of its argument
FieldsAsConstructed ==
  /\ instructionsRole =
       IF configArg.instructionsRole = Undefined THEN "system"
       ELSE configArg.instructionsRole
  /\ instructionsFormatter =
       IF configArg.instructionsFormatter = Undefined THEN "textualMarkdownFormatter"
       ELSE configArg.instructionsFormatter
  /\ roleMapper =
       IF configArg.roleMapper = Undefined THEN "identityRoleMapper"
       ELSE configArg.roleMapper

\* C16: a call of format whose steps are interleaved with the steps of another
\* call on the same instance ends as the call with the same query ends when
\* no other call is in progress: each call has its own current group and its
\* own list of groups, and the fields instructionsRole, instructionsFormatter
\* and roleMapper are never written after construction.
C16_InterleavedCallsAsAlone ==
  /\ \A i, j \in Calls :
       ( /\ completed[i].query = completed[j].query
         /\ ~completed[i].overlapped
         /\ completed[j].overlapped )
       => completed[j].outcome = completed[i].outcome
  /\ FieldsAsConstructed

\* a call has run alone, and then the same query and a query with another
\* memory have run with their steps interleaved; all three have returned
C16_Witness ==
  \E i, j, k \in Calls :
    /\ ~completed[i].overlapped
    /\ completed[j].overlapped
    /\ completed[k].overlapped
    /\ j # k
    /\ completed[j].query = completed[i].query
    /\ Contents(completed[j].query) # <<>>
    /\ Contents(completed[k].query) # <<>>
    /\ Contents(completed[k].query) # Contents(completed[j].query)
    /\ completed[i].outcome.status = "returned"
    /\ completed[j].outcome.status = "returned"
    /\ completed[k].outcome.status = "returned"

\* C17: format keeps no state between calls: two calls on one instance with
\* the same query end the same way, with equal results or the same error,
\* whatever calls, succeeding or failing, ran before or between them.
C17_SameQuerySameOutcome ==
  \A i, j \in Calls :
    completed[i].query = completed[j].query
    => completed[i].outcome = completed[j].outcome

\* a query was formatted, then a query that fails, then the first query
\* again, with the result of the first call
C17_Witness ==
  /\ Len(completed) = 3
  /\ completed[1].query = completed[3].query
  /\ completed[2].query # completed[1].query
  /\ Contents(completed[1].query) # <<>>
  /\ completed[1].outcome.status = "returned"
  /\ completed[2].outcome.status = "thrown"
  /\ completed[3].outcome = completed[1].outcome

\* the error the loop raises for the memory item it is at, for an item that
\* is not attached in place
ErrorOfItem(memoryItem) ==
  CASE memoryItem.type = "utterance" ->
         IF CallRoleMapper(roleMapper, memoryItem.role, Undefined).status = "thrown"
           THEN "Unknown role: " \o memoryItem.role
           ELSE "Only user and assistant utterances are supported by AzureOpenAIChatCompletionsJsonFormatter"
    [] memoryItem.type = "tool-call-result" ->
         "Memory starts with a tool call result without its corresponding call. Tool call id: "
           \o memoryItem.toolCallId
    [] OTHER -> "Unexpected memory type: " \o memoryItem.type

\* no step of the call raised an error: the memory has no item of an unknown
\* type and does not start with a tool call result, every call of the role
\* mapper returned 'user' or 'assistant', and the output type is known
NoErrorArose ==
  /\ \A k \in 1..Len(Items) :
       Items[k].type \in {"utterance", "tool-call", "tool-call-result"}
  /\ Items # <<>> => Items[1].type # "tool-call-result"
  /\ \A c \in 1..Len(roleMapperCalls) :
       LET mapped == CallRoleMapper(roleMapper, roleMapperCalls[c][1],
                                    roleMapperCalls[c][2]) IN
       mapped.status = "returned" /\ mapped.value \in {"user", "assistant"}
  /\ query.output.type \in {"output-text", "output-json"}

\* C18: format never yields a partial result.  A call returns a result only
\* if no error arose at any memory item or in the switch on the output type;
\* a call in which an error arose ends with that error, the error of the item
\* the loop was at or of the output type, and its outcome has no messages,
\* tools or response_format, whatever was regrouped before.
C18_NoPartialResult ==
  /\ pc = "returned" => NoErrorArose
  /\ pc = "thrown" =>
       /\ DOMAIN outcome = {"status", "message"}
       /\ outcome.status = "thrown"
       /\ pos <= Len(Items) => outcome.message = ErrorOfItem(Items[pos])
       /\ pos > Len(Items) =>
            outcome.message = "Unknown output type: " \o query.output.type

\* a call failed at its third memory item, after a user group was closed and
\* an assistant group was opened
C18_Witness ==
  /\ pc = "thrown"
  /\ pos = 3
  /\ Len(regroupedMemoryItems) = 1
  /\ lastGroup # NullGroup
  /\ lastGroup.type = "assistant"
  /\ DOMAIN outcome = {"status", "message"}

\* the positions of the memory items of a type format does not know
UnexpectedPositions ==
  { k \in 1..Len(Items) :
      Items[k].type \notin {"utterance", "tool-call", "tool-call-result"} }

\* C19, as stated: when the memory has an item whose type is none
\* of 'utterance', 'tool-call', 'tool-call-result', at whatever position,
\* format fails with 'Unexpected memory type: <tag>' for the tag of such an
\* item.
C19_UnexpectedTypeNamed ==
  (pc \in {"returned", "thrown"} /\ UnexpectedPositions # {}) =>
    /\ pc = "thrown"
    /\ \E k \in UnexpectedPositions :
         outcome = Thrown("Unexpected memory type: " \o Items[k].type)

\* C19, amended: such an item is never skipped or defaulted, format returns
\* no result; the call fails at that item with 'Unexpected memory type:
\* <tag>', at whatever position it is, unless an item before it made the call
\* fail with its own error.
C19_UnexpectedTypeFails ==
  (pc \in {"returned", "thrown"} /\ UnexpectedPositions # {}) =>
    /\ pc = "thrown"
    /\ \E k \in UnexpectedPositions :
         /\ \A l \in UnexpectedPositions : k <= l
         /\ pos <= k
         /\ pos = k => outcome = Thrown("Unexpected memory type: " \o Items[k].type)
         /\ pos < k => /\ outcome.status = "thrown"
                       /\ outcome.message = ErrorOfItem(Items[pos])
                       /\ Items[pos].type \in {"utterance", "tool-call-result"}

\* a call failed at an item of unknown type that is the fourth of its memory,
\* after a tool call, its result and an utterance
C19_Witness ==
  /\ pc = "thrown"
  /\ pos = 4
  /\ Len(Items) = 4
  /\ Items[1].type = "tool-call"
  /\ Items[2].type = "tool-call-result"
  /\ Items[3].type = "utterance"
  /\ Items[4].type = "snapshot"
  /\ outcome = Thrown("Unexpected memory type: snapshot")

\* C20: format of AzureOpenAIChatCompletionsJsonFormatter, for a query with
\* json output and no tools, returns a result whose tools field is the empty
\* list.
C20_JsonFormatterToolsEmpty ==
  ( /\ pc = "returned"
    /\ query.output.type = "output-json"
    /\ "tools" \notin DOMAIN query )
  => /\ "tools" \in DOMAIN outcome.value
     /\ outcome.value.tools = <<>>

\* the error messages of the two formatters that contain the text 'Only user
\* and assistant utterances are supported'
MentionsOnlyUserAndAssistant(message) ==
  message = "Only user and assistant utterances are supported by AzureOpenAIChatCompletionsJsonFormatter"

\* C21: format of AzureOpenAIChatCompletionsJsonFormatter fails with an error
\* whose message contains 'Only user and assistant utterances are supported'
\* when the configured role mapper returns 'system' for an utterance.
C21_JsonUnsupportedMappedRoleMessage ==
  ( /\ pc \in {"returned", "thrown"}
    /\ roleMapper = "systemRoleMapper"
    /\ Items # <<>>
    /\ Items[1].type = "utterance" )
  => /\ pc = "thrown"
     /\ MentionsOnlyUserAndAssistant(outcome.message)

\* C22, as stated: format of AzureOpenAIChatCompletionsJsonFormatter fails
\* whenever the output of the query is not of type 'output-json', and the
\* error reports the type found: got '<type>'.
C22_JsonNonJsonOutputNamed ==
  (pc \in {"returned", "thrown"} /\ query.output.type # "output-json") =>
    /\ pc = "thrown"
    /\ outcome = Thrown("got '" \o query.output.type \o "'")

\* C22, amended: for such a query format returns no result; the error reports
\* the type found, got '<type>', when formatting the memory raised no error,
\* and is the error of the memory otherwise, as the memory is formatted
\* before the output is looked at.
C22_JsonNonJsonOutputFails ==
  (pc \in {"returned", "thrown"} /\ query.output.type # "output-json") =>
    /\ pc = "thrown"
    /\ outcome.status = "thrown"
    /\ memoryItems # <<>> => outcome = Thrown("got '" \o query.output.type \o "'")
    /\ memoryItems = <<>> =>
         /\ JsonMapItems(roleMapper, Items).status = "thrown"
         /\ outcome = JsonMapItems(roleMapper, Items)

\* a call with text output and an utterance in memory failed in
\* formatJsonSchema, after the messages were built
C22_Witness ==
  /\ pc = "thrown"
  /\ query.output.type = "output-text"
  /\ Len(Items) = 1
  /\ Len(memoryItems) = 2
  /\ outcome = Thrown("got 'output-text'")

\* the positions of the utterances and of the tool calls in the memory
UtterancePositions == { i \in 1..Len(Items) : Items[i].type = "utterance" }

ToolCallPositions == { i \in 1..Len(Items) : Items[i].type = "tool-call" }

\* the indexes of the user and assistant messages that have a content
ContentMessageIndexes(messages) ==
  { t \in 2..Len(messages) :
      messages[t].role \in {"user", "assistant"} /\ "content" \in DOMAIN messages[t] }

\* the tool_calls of a message, none when it has no such field
ToolCallsOf(message) ==
  IF "tool_calls" \in DOMAIN message THEN message.tool_calls ELSE <<>>

\* how many tool_calls entries the messages up to index t have
RECURSIVE ToolCallsUpTo(_, _)
ToolCallsUpTo(messages, t) ==
  IF t = 0 THEN 0
  ELSE ToolCallsUpTo(messages, t - 1) + Len(ToolCallsOf(messages[t]))

\* the k-th element of a set of indexes, 0 when it has fewer
NthOf(S, k) ==
  IF k \in 1..Cardinality(S) THEN CHOOSE t \in S : Rank(S, t) = k ELSE 0

\* the index of the message that has the k-th tool_calls entry of all
\* messages, 0 when there are fewer
MessageOfToolCallEntry(messages, k) ==
  IF k \in 1..ToolCallsUpTo(messages, Len(messages))
    THEN CHOOSE t \in 1..Len(messages) :
           ToolCallsUpTo(messages, t - 1) < k /\ k <= ToolCallsUpTo(messages, t)
    ELSE 0

\* The index of the message that carries the memory item at position i: the
\* k-th message with a content for the k-th utterance, the message with the
\* k-th tool_calls entry for the k-th tool call, the k-th tool message for
\* the k-th result; 0 when there is none.
Carrier(messages, i) ==
  CASE Items[i].type = "utterance" ->
         NthOf(ContentMessageIndexes(messages), Rank(UtterancePositions, i))
    [] Items[i].type = "tool-call" ->
         MessageOfToolCallEntry(messages, Rank(ToolCallPositions, i))
    [] Items[i].type = "tool-call-result" ->
         MessageOfResult(messages, i)
    [] OTHER -> 0

\* the message at index t carries the memory item at position i
Carries(messages, t, i) ==
  CASE Items[i].type = "utterance" ->
         messages[t].content = Items[i].contents
    [] Items[i].type = "tool-call" ->
         LET e == Rank(ToolCallPositions, i) - ToolCallsUpTo(messages, t - 1) IN
         /\ messages[t].role = "assistant"
         /\ messages[t].tool_calls[e] = ExpectedToolCall(Items[i])
    [] Items[i].type = "tool-call-result" ->
         /\ messages[t].role = "tool"
         /\ messages[t].tool_call_id = Items[i].toolCallId
         /\ messages[t].content =
              IF Items[i].result = Null THEN "Success" ELSE Items[i].result
    [] OTHER -> FALSE

\* C23: regrouping keeps the order of the memory items.  In a successful call
\* every item has a message that carries it, the message of an earlier item
\* is never after the message of a later item, two items share a message
\* only when it is an assistant message that merges an utterance and tool
\* calls, and the tool_calls of a message are in the order of the memory.
C23_OrderPreserved ==
  pc = "returned" =>
    LET messages == outcome.value.messages IN
    /\ \A i \in 1..Len(Items) :
         /\ Carrier(messages, i) >= 2
         /\ Carries(messages, Carrier(messages, i), i)
    /\ \A i, j \in 1..Len(Items) :
         i < j =>
           /\ Carrier(messages, i) <= Carrier(messages, j)
           /\ Carrier(messages, i) = Carrier(messages, j) =>
                /\ messages[Carrier(messages, i)].role = "assistant"
                /\ Items[i].type \in {"utterance", "tool-call"}
                /\ Items[j].type \in {"utterance", "tool-call"}
                /\ Items[i].type = "utterance" => Items[j].type = "tool-call"

\* a successful call with a user utterance, two tool calls of one assistant
\* message, in the order of the memory, and a result
C23_Witness ==
  /\ pc = "returned"
  /\ Len(Items) = 4
  /\ Items[1].type = "utterance"
  /\ Items[2].type = "tool-call"
  /\ Items[3].type = "tool-call"
  /\ Items[2].toolCallId # Items[3].toolCallId
  /\ Items[4].type = "tool-call-result"
  /\ LET messages == outcome.value.messages IN
     /\ Len(messages) = 4
     /\ Carrier(messages, 1) = 2
     /\ Carrier(messages, 2) = 3
     /\ Carrier(messages, 3) = 3
     /\ Carrier(messages, 4) = 4
     /\ messages[3].tool_calls[1].id = Items[2].toolCallId
     /\ messages[3].tool_calls[2].id = Items[3].toolCallId

\* C24: no memory item is lost or duplicated.  In a successful call the
\* messages with a content are as many as the utterances and the k-th has
\* the text of the k-th utterance; the tool_calls entries, all in assistant
\* messages, are as many as the tool calls and the k-th is the k-th tool
\* call; the tool messages are as many as the results and the k-th is the
\* k-th result; and every message after the instructions message carries
\* one of the items.
C24_NothingLostOrDuplicated ==
  pc = "returned" =>
    LET messages == outcome.value.messages IN
    /\ Cardinality(ContentMessageIndexes(messages)) = Cardinality(UtterancePositions)
    /\ ToolCallsUpTo(messages, Len(messages)) = Cardinality(ToolCallPositions)
    /\ Cardinality(ToolMessageIndexes(messages)) = Cardinality(ResultPositions)
    /\ \A t \in 1..Len(messages) :
         Len(ToolCallsOf(messages[t])) > 0 => messages[t].role = "assistant"
    /\ \A i \in 1..Len(Items) :
         /\ Carrier(messages, i) \in 2..Len(messages)
         /\ Carries(messages, Carrier(messages, i), i)
    /\ messages[1] = [role |-> instructionsRole, content |-> instructions]
    /\ \A t \in 2..Len(messages) :
         /\ messages[t].role \in {"user", "assistant", "tool"}
         /\ \E i \in 1..Len(Items) : Carrier(messages, i) = t

\* a successful call with two utterances, a tool call and a result: four
\* messages after the instructions message
C24_Witness ==
  /\ pc = "returned"
  /\ Len(Items) = 4
  /\ Cardinality(UtterancePositions) = 2
  /\ Cardinality(ToolCallPositions) = 1
  /\ Cardinality(ResultPositions) = 1
  /\ Items[4].type = "utterance"
  /\ Len(outcome.value.messages) = 5

\* C25: in a successful call the message that carries an utterance has the
\* role the configured mapper gives the utterance: a user message carries an
\* utterance mapped to 'user', the content of an assistant message is the
\* text of an utterance mapped to 'assistant', and an utterance mapped to
\* 'user' is never the content of an assistant message.
C25_MessageRoleIsMappedRole ==
  pc = "returned" =>
    LET messages == outcome.value.messages IN
    \A i \in UtterancePositions :
      /\ Carrier(messages, i) >= 2
      /\ messages[Carrier(messages, i)].content = Items[i].contents
      /\ messages[Carrier(messages, i)].role = MappedRole(Items[i])

\* The tool message at index t of messages answers a call that an assistant
\* message at a smaller index carries in its tool_calls.
ReferencesPriorToolCall(messages, t) ==
  \E a \in 1..(t - 1) :
    /\ messages[a].role = "assistant"
    /\ \E k \in 1..Len(ToolCallsOf(messages[a])) :
         ToolCallsOf(messages[a])[k].id = messages[t].tool_call_id

\* Every tool call result of the memory has the identifier of a tool call
\* earlier in the memory.
ResultsFollowTheirCalls ==
  \A i \in ResultPositions :
    \E h \in 1..(i - 1) :
      /\ Items[h].type = "tool-call"
      /\ Items[h].toolCallId = Items[i].toolCallId

\* C26 as stated: in every successful call each tool message's tool_call_id
\* is the id of a tool_calls entry of an assistant message at a smaller index.
C26_ToolMessageReferencesPriorCall ==
  pc = "returned" =>
    \A t \in ToolMessageIndexes(outcome.value.messages) :
      ReferencesPriorToolCall(outcome.value.messages, t)

\* C26 amended: when every tool call result of the memory has the identifier
\* of an earlier tool call of the memory, each tool message of a successful
\* call has the id of a tool_calls entry of an assistant message at a smaller
\* index; the formatter itself rejects only a result that is the first item.
C26_ToolMessageReferencesPriorCallOfMemory ==
  (pc = "returned" /\ ResultsFollowTheirCalls) =>
    \A t \in ToolMessageIndexes(outcome.value.messages) :
      ReferencesPriorToolCall(outcome.value.messages, t)

C26_Witness ==
  /\ pc = "returned"
  /\ ResultsFollowTheirCalls
  /\ \E i \in ResultPositions : i >= 3 /\ Items[i - 1].type # "tool-call"
  /\ ToolMessageIndexes(outcome.value.messages) # {}

\* the assistant groups among the closed groups, and the assistant messages
AssistantGroupIndexes ==
  { g \in 1..Len(regroupedMemoryItems) : regroupedMemoryItems[g].type = "assistant" }

AssistantMessageIndexes(messages) ==
  { t \in 1..Len(messages) : messages[t].role = "assistant" }

\* an assistant group has an utterance or at least one tool call
IsSeeded(group) ==
  group.type = "assistant" =>
    ("utteranceItem" \in DOMAIN group \/ Len(group.toolCalls) >= 1)

\* C27: at every step of the regrouping an assistant group, open or closed,
\* has an utterance or at least one tool call; in a successful call every
\* assistant message has content or tool_calls, content is absent (not null)
\* exactly when its group has no utterance, and tool_calls is absent exactly
\* when its group has no tool calls.
C27_AssistantNeverEmpty ==
  /\ lastGroup # NullGroup => IsSeeded(lastGroup)
  /\ \A g \in 1..Len(regroupedMemoryItems) : IsSeeded(regroupedMemoryItems[g])
  /\ pc = "returned" =>
       LET messages == outcome.value.messages
           A == AssistantMessageIndexes(messages)
       IN /\ Cardinality(A) = Cardinality(AssistantGroupIndexes)
          /\ \A k \in 1..Cardinality(A) :
               LET message == messages[NthOf(A, k)]
                   group == regroupedMemoryItems[NthOf(AssistantGroupIndexes, k)]
               IN /\ "content" \in DOMAIN message \/ "tool_calls" \in DOMAIN message
                  /\ "content" \in DOMAIN message <=> "utteranceItem" \in DOMAIN group
                  /\ "content" \in DOMAIN message => message.content # Null
                  /\ "tool_calls" \in DOMAIN message <=> Len(group.toolCalls) > 0
                  /\ "tool_calls" \in DOMAIN message => Len(message.tool_calls) > 0

C27_Witness ==
  /\ pc = "returned"
  /\ \E a, b \in AssistantMessageIndexes(outcome.value.messages) :
       /\ DOMAIN outcome.value.messages[a] = {"role", "content"}
       /\ DOMAIN outcome.value.messages[b] = {"role", "tool_calls"}

\* where the run of tool calls that ends at position i starts
ToolCallRunStart(i) ==
  CHOOSE b \in 1..i :
    /\ \A h \in b..i : Items[h].type = "tool-call"
    /\ b = 1 \/ Items[b - 1].type # "tool-call"

\* The utterance at position i is attached in place: it comes right after a
\* run of tool calls that opened an assistant group of their own, which they
\* do at the start of the memory, after a result, and after an utterance
\* that opened a user group.
RECURSIVE AttachedInPlace(_)
AttachedInPlace(i) ==
  /\ Items[i].type = "utterance"
  /\ i > 1
  /\ Items[i - 1].type = "tool-call"
  /\ LET b == ToolCallRunStart(i - 1) IN
       \/ b = 1
       \/ /\ b > 1
          /\ \/ Items[b - 1].type = "tool-call-result"
             \/ /\ Items[b - 1].type = "utterance"
                /\ ~AttachedInPlace(b - 1)
                /\ MappedRole(Items[b - 1]) = "user"

\* how many tool calls follow item i of the memory without interruption
ToolCallRunAfter(i) ==
  CHOOSE k \in 0..(Len(Items) - i) :
    /\ \A h \in (i + 1)..(i + k) : Items[h].type = "tool-call"
    /\ i + k = Len(Items) \/ Items[i + k + 1].type # "tool-call"

\* the tool_calls entry of a tool call, written out
ExpectedToolCallEntry(toolCall) ==
  [id |-> toolCall.toolCallId,
   type |-> "function",
   function |-> [name |-> toolCall.toolName, arguments |-> toolCall.arguments]]

\* the entries of the tool calls i+1 .. i+k of the memory
ExpectedRunEntries(i, k) ==
  [h \in 1..k |-> ExpectedToolCallEntry(Items[i + h])]

\* the assistant utterances of the memory that are followed by a tool call
AssistantUtterancesBeforeToolCalls ==
  { i \in UtterancePositions :
      MappedRole(Items[i]) = "assistant" /\ ToolCallRunAfter(i) >= 1 }

\* one iteration on a tool call while an assistant group is open appends the
\* call to that group, which stays open
ToolCallAppendStep ==
  (/\ pc = "loop"
   /\ pos <= Len(Items)
   /\ Items[pos].type = "tool-call"
   /\ lastGroup.type = "assistant"
   /\ pos' = pos + 1)
  => /\ lastGroup' = [lastGroup EXCEPT !.toolCalls = Append(@, Items[pos])]
     /\ regroupedMemoryItems' = regroupedMemoryItems
     /\ pc' = "loop"

\* C28 as stated, its last part: in a successful call an assistant utterance
\* followed by k consecutive tool calls is in one assistant message with
\* that content and exactly those k tool_calls entries.
C28_RunIsWholeToolCalls ==
  pc = "returned" =>
    LET messages == outcome.value.messages IN
    \A i \in AssistantUtterancesBeforeToolCalls :
      LET message == messages[Carrier(messages, i)] IN
      /\ message.role = "assistant"
      /\ message.content = Items[i].contents
      /\ ToolCallsOf(message) = ExpectedRunEntries(i, ToolCallRunAfter(i))

\* how many tool calls the group held when the utterance at position i was
\* attached to it in place; 0 for an utterance that opened its group
ToolCallsHeldBefore(i) ==
  IF AttachedInPlace(i) THEN i - ToolCallRunStart(i - 1) ELSE 0

\* in a successful call an assistant utterance followed by k consecutive tool
\* calls is in one assistant message with that content; its tool_calls are
\* the entries of the j calls its group held before it, then those of the k
\* calls, j + k in all, and j = 0 unless it was attached in place
RunEndsToolCalls ==
  pc = "returned" =>
    LET messages == outcome.value.messages IN
    \A i \in AssistantUtterancesBeforeToolCalls :
      LET message == messages[Carrier(messages, i)]
          k == ToolCallRunAfter(i)
          j == ToolCallsHeldBefore(i)
      IN /\ message.role = "assistant"
         /\ message.content = Items[i].contents
         /\ Len(ToolCallsOf(message)) = j + k
         /\ ToolCallsOf(message) =
              ExpectedRunEntries(i - j - 1, j) \o ExpectedRunEntries(i, k)

\* C28 amended: while the open group is an assistant group, with or without
\* an utterance, an iteration on a tool call appends the call to the group's
\* tool calls and leaves the group open; k consecutive tool calls after an
\* assistant utterance give one assistant message with that content and
\* j + k tool_calls, where j is the number of calls of the tool-call-only
\* group the utterance was attached to and 0 when the utterance opened its
\* group: the j entries, then the k entries, each {id, type 'function',
\* function {name, arguments}} of its call.
C28_ToolCallsAppendToAssistantGroup ==
  [][ToolCallAppendStep]_vars /\ []RunEndsToolCalls

C28_Witness ==
  /\ pc = "returned"
  /\ \E i \in AssistantUtterancesBeforeToolCalls :
       /\ ToolCallsHeldBefore(i) = 1
       /\ ToolCallRunAfter(i) = 2
       /\ Items[i - 1].toolCallId # Items[i + 1].toolCallId
       /\ Len(ToolCallsOf(outcome.value.messages[Carrier(outcome.value.messages, i)])) = 3

\* one iteration on a tool call while no group, a user group or a group of
\* results is open: the open group, if any, is pushed unchanged and the call
\* starts an assistant group without utterance
ToolCallOpenStep ==
  (/\ pc = "loop"
   /\ pos <= Len(Items)
   /\ Items[pos].type = "tool-call"
   /\ lastGroup.type \in {"null", "user", "tool-call-result"}
   /\ pos' = pos + 1)
  => /\ lastGroup' = [type |-> "assistant", toolCalls |-> <<Items[pos]>>]
     /\ regroupedMemoryItems' =
          IF lastGroup = NullGroup
            THEN regroupedMemoryItems
            ELSE Append(regroupedMemoryItems, lastGroup)
     /\ pc' = "loop"

\* in a successful call no user or tool message has tool_calls, and every
\* tool call is carried by an assistant message
ToolCallsOnlyInAssistantMessages ==
  pc = "returned" =>
    LET messages == outcome.value.messages IN
    /\ \A t \in 1..Len(messages) :
         messages[t].role \in {"user", "tool"} => "tool_calls" \notin DOMAIN messages[t]
    /\ \A i \in ToolCallPositions :
         /\ Carrier(messages, i) >= 2
         /\ messages[Carrier(messages, i)].role = "assistant"

\* C29: a tool call that arrives when no group is open, or when a user group
\* or a group of results is open, opens a new assistant group with no
\* utterance and that call as its only tool call; a group that was open is
\* first appended to the regrouped items unchanged; a tool call is never part
\* of a user or tool message.
C29_ToolCallOpensAssistantGroup ==
  [][ToolCallOpenStep]_vars /\ []ToolCallsOnlyInAssistantMessages

C29_Witness ==
  /\ pc = "returned"
  /\ \E g, h \in 1..(Len(regroupedMemoryItems) - 1) :
       /\ regroupedMemoryItems[g].type = "user"
       /\ regroupedMemoryItems[g + 1].type = "assistant"
       /\ "utteranceItem" \notin DOMAIN regroupedMemoryItems[g + 1]
       /\ regroupedMemoryItems[h].type = "tool-call-result"
       /\ regroupedMemoryItems[h + 1].type = "assistant"
       /\ "utteranceItem" \notin DOMAIN regroupedMemoryItems[h + 1]

\* the groups made so far, the open one last
GroupsSoFar ==
  IF pc = "loop" /\ lastGroup # NullGroup
    THEN Append(regroupedMemoryItems, lastGroup)
    ELSE regroupedMemoryItems

ResultGroupIndexes ==
  { g \in 1..Len(regroupedMemoryItems) :
      regroupedMemoryItems[g].type = "tool-call-result" }

\* the positions where a run of tool call results starts, and its length
ResultRunStarts ==
  { i \in ResultPositions : i = 1 \/ Items[i - 1].type # "tool-call-result" }

ResultRunLength(i) ==
  CHOOSE k \in 1..(Len(Items) - i + 1) :
    /\ \A h \in i..(i + k - 1) : Items[h].type = "tool-call-result"
    /\ i + k - 1 = Len(Items) \/ Items[i + k].type # "tool-call-result"

\* one iteration on a tool call result while a group is open: the result
\* joins an open group of results; any other open group is pushed and the
\* result starts a group of results
ToolCallResultStep ==
  (/\ pc = "loop"
   /\ pos <= Len(Items)
   /\ Items[pos].type = "tool-call-result"
   /\ lastGroup # NullGroup
   /\ pos' = pos + 1)
  => IF lastGroup.type = "tool-call-result"
       THEN /\ lastGroup' =
                 [lastGroup EXCEPT !.toolCallResults = Append(@, Items[pos])]
            /\ regroupedMemoryItems' = regroupedMemoryItems
       ELSE /\ lastGroup' = [type |-> "tool-call-result",
                             toolCallResults |-> <<Items[pos]>>]
            /\ regroupedMemoryItems' = Append(regroupedMemoryItems, lastGroup)

\* every group of results has a result, no two groups of results are
\* adjacent, and in a successful call the groups of results are the maximal
\* runs of results of the memory
ResultGroupsAreMaximalRuns ==
  /\ \A g \in 1..Len(GroupsSoFar) :
       GroupsSoFar[g].type = "tool-call-result" =>
         /\ Len(GroupsSoFar[g].toolCallResults) >= 1
         /\ g < Len(GroupsSoFar) => GroupsSoFar[g + 1].type # "tool-call-result"
  /\ pc = "returned" =>
       /\ Cardinality(ResultGroupIndexes) = Cardinality(ResultRunStarts)
       /\ \A k \in 1..Cardinality(ResultRunStarts) :
            LET start == NthOf(ResultRunStarts, k) IN
            regroupedMemoryItems[NthOf(ResultGroupIndexes, k)].toolCallResults =
              SubSeq(Items, start, start + ResultRunLength(start) - 1)

\* C30: a tool call result is appended to the open group when that group is
\* a group of results and otherwise closes the open group and opens a new
\* group of results; every group of results holds one or more results, the
\* regrouped sequence never has two adjacent groups of results, and the
\* groups of results are the maximal runs of results of the memory.
C30_ResultGroupsAreMaximalRuns ==
  [][ToolCallResultStep]_vars /\ []ResultGroupsAreMaximalRuns

C30_Witness ==
  /\ pc = "returned"
  /\ \E g \in ResultGroupIndexes :
       /\ Len(regroupedMemoryItems[g].toolCallResults) = 2
       /\ 1 < g /\ g < Len(regroupedMemoryItems)

\* one iteration on an utterance that does not fail: the utterance is set in
\* place on an open assistant group without utterance; in every other case
\* the open group, if any, is pushed unchanged and the utterance opens a
\* user group or an assistant group without tool calls
UtteranceStep ==
  (/\ pc = "loop"
   /\ pos <= Len(Items)
   /\ Items[pos].type = "utterance"
   /\ pos' = pos + 1)
  => IF lastGroup.type = "assistant" /\ "utteranceItem" \notin DOMAIN lastGroup
       THEN /\ lastGroup' = [type |-> "assistant", utteranceItem |-> Items[pos],
                             toolCalls |-> lastGroup.toolCalls]
            /\ regroupedMemoryItems' = regroupedMemoryItems
       ELSE /\ regroupedMemoryItems' =
                 IF lastGroup = NullGroup
                   THEN regroupedMemoryItems
                   ELSE Append(regroupedMemoryItems, lastGroup)
            /\ lastGroup' \in
                 { [type |-> "user", utteranceItem |-> Items[pos]],
                   [type |-> "assistant", utteranceItem |-> Items[pos],
                    toolCalls |-> <<>>] }

\* the utterance of a group that stays open is not replaced
UtteranceKept ==
  (/\ pc = "loop" /\ pc' = "loop"
   /\ "utteranceItem" \in DOMAIN lastGroup
   /\ regroupedMemoryItems' = regroupedMemoryItems)
  => /\ "utteranceItem" \in DOMAIN lastGroup'
     /\ lastGroup'.utteranceItem = lastGroup.utteranceItem

\* in a successful call every utterance is the content of a message of its
\* own, and an utterance that follows an utterance is in the next message
UtterancesInSeparateMessages ==
  pc = "returned" =>
    LET messages == outcome.value.messages IN
    /\ Cardinality(ContentMessageIndexes(messages)) = Cardinality(UtterancePositions)
    /\ \A i \in UtterancePositions :
         /\ messages[Carrier(messages, i)].content = Items[i].contents
         /\ (i > 1 /\ Items[i - 1].type = "utterance")
              => Carrier(messages, i) = Carrier(messages, i - 1) + 1

\* C31: an assistant group holds at most one utterance and its utterance is
\* never overwritten: an utterance is attached in place only when the open
\* group is an assistant group with no utterance yet; when the open group
\* has an utterance or is a group of results, the utterance closes it and
\* opens a new group; so for [ToolCall, Utterance(a1), Utterance(a2)] the
\* first assistant message has content a1 and a2 is a separate message.
C31_UtteranceNeverOverwritten ==
  [][UtteranceStep /\ UtteranceKept]_vars /\ []UtterancesInSeparateMessages

C31_Witness ==
  /\ pc = "returned"
  /\ Len(Items) = 3
  /\ Items[1].type = "tool-call"
  /\ Items[2] = [type |-> "utterance", role |-> "assistant", contents |-> "done"]
  /\ Items[3] = [type |-> "utterance", role |-> "assistant", contents |-> "here"]
  /\ Len(outcome.value.messages) = 3
  /\ outcome.value.messages[2].content = "done"
  /\ Len(ToolCallsOf(outcome.value.messages[2])) = 1
  /\ outcome.value.messages[3] = [role |-> "assistant", content |-> "here"]

\* the utterances that open a group
OpeningUtterances == { i \in UtterancePositions : ~AttachedInPlace(i) }

\* the calls of the role mapper for the utterances that open a group, in
\* the order of the memory
ExpectedMapperCalls ==
  [k \in 1..Cardinality(OpeningUtterances) |->
     LET i == NthOf(OpeningUtterances, k) IN <<Items[i].role, NameOf(Items[i])>>]

\* a step of the loop calls the role mapper exactly when it is at an
\* utterance and the open group is not a tool-call-only assistant group, it
\* calls it once, and the utterance then opens a group unless the step fails
MapperCalledWhenGroupOpens ==
  pc = "loop" =>
    /\ roleMapperCalls' # roleMapperCalls <=>
         /\ pos <= Len(Items)
         /\ Items[pos].type = "utterance"
         /\ ~(lastGroup.type = "assistant" /\ "utteranceItem" \notin DOMAIN lastGroup)
         /\ vars' # vars
    /\ roleMapperCalls' # roleMapperCalls =>
         /\ roleMapperCalls' =
              Append(roleMapperCalls, <<Items[pos].role, NameOf(Items[pos])>>)
         /\ pc' = "loop" =>
              /\ regroupedMemoryItems' =
                   IF lastGroup = NullGroup
                     THEN regroupedMemoryItems
                     ELSE Append(regroupedMemoryItems, lastGroup)
              /\ lastGroup'.utteranceItem = Items[pos]
              /\ pos' = pos + 1

\* in a successful call the role mapper has been called once for every
\* utterance that opens a group, in the order of the memory, and for nothing
\* else
MapperCallsAreOpeningUtterances ==
  pc = "returned" => roleMapperCalls = ExpectedMapperCalls

\* C32: the role mapper is called at most once per utterance, in the order
\* of the memory, never for a tool call or a tool call result; it is called
\* for an utterance exactly when the utterance opens a new group, and not for
\* an utterance that is attached in place to a tool-call-only assistant
\* group, whose source role is neither mapped nor validated.
C32_MapperCalledOncePerOpeningUtterance ==
  [][MapperCalledWhenGroupOpens]_vars /\ []MapperCallsAreOpeningUtterances

C32_Witness ==
  /\ pc = "returned"
  /\ \E i \in UtterancePositions : AttachedInPlace(i) /\ Items[i].role = "narrator"
  /\ Cardinality(OpeningUtterances) = 2
  /\ Len(roleMapperCalls) = 2
  /\ ToolCallResultItems \cap { Items[i] : i \in 1..Len(Items) } = {}

\* The item at position i opens a group: an utterance that is not attached
\* in place; a tool call at the start of the memory, after a result or after
\* an utterance that opened a user group; a result that does not follow a
\* result.
GroupOpensAt(i) ==
  CASE Items[i].type = "utterance" -> ~AttachedInPlace(i)
    [] Items[i].type = "tool-call" ->
         \/ i = 1
         \/ /\ i > 1
            /\ \/ Items[i - 1].type = "tool-call-result"
               \/ /\ Items[i - 1].type = "utterance"
                  /\ ~AttachedInPlace(i - 1)
                  /\ MappedRole(Items[i - 1]) = "user"
    [] Items[i].type = "tool-call-result" ->
         i > 1 /\ Items[i - 1].type # "tool-call-result"
    [] OTHER -> FALSE

\* how many groups the items before position p have opened
GroupsOpenedBefore(p) == Cardinality({ i \in 1..(p - 1) : GroupOpensAt(i) })

\* while the loop runs the closed groups are the groups opened so far but
\* the open one; after the loop every opened group is in the list once, and
\* the list is empty only when there is no memory item
OpenGroupNotInList ==
  /\ pc = "loop" =>
       /\ lastGroup # NullGroup <=> pos > 1
       /\ Len(regroupedMemoryItems) + (IF lastGroup # NullGroup THEN 1 ELSE 0)
            = GroupsOpenedBefore(pos)
  /\ pc \in {"tools", "output", "returned"} =>
       /\ Len(regroupedMemoryItems) = GroupsOpenedBefore(Len(Items) + 1)
       /\ lastGroup # NullGroup =>
            regroupedMemoryItems[Len(regroupedMemoryItems)] = lastGroup
       /\ regroupedMemoryItems = <<>> <=> Contents(query) = <<>>

\* a step of a call leaves the groups of the list as they are; the list
\* grows by the open group only, when an item opens the next group or when
\* the loop has ended
ClosedGroupsStay ==
  (pc \in {"loop", "tools", "output"}) =>
    /\ Len(regroupedMemoryItems') >= Len(regroupedMemoryItems)
    /\ SubSeq(regroupedMemoryItems', 1, Len(regroupedMemoryItems)) = regroupedMemoryItems
    /\ regroupedMemoryItems' # regroupedMemoryItems =>
         /\ pc = "loop"
         /\ regroupedMemoryItems' = Append(regroupedMemoryItems, lastGroup)
         /\ pc' = "loop" => GroupOpensAt(pos) /\ pos' = pos + 1
         /\ pc' = "tools" => pos > Len(Items)

\* C33: at every step of the regrouping the open group is not in the list of
\* closed groups, the groups in the list are never modified again, and each
\* group is appended exactly once, when the next group opens or at the end
\* of the input; after the last item the open group, if any, is appended, so
\* the list is empty only when the memory is absent or empty.
C33_GroupsAppendedOnce ==
  [][ClosedGroupsStay]_vars /\ []OpenGroupNotInList

C33_Witness ==
  /\ pc = "tools"
  /\ Len(regroupedMemoryItems) = 3
  /\ regroupedMemoryItems[1] = regroupedMemoryItems[3]
  /\ \E g \in 1..3 : regroupedMemoryItems[g].type = "tool-call-result"
                       /\ Len(regroupedMemoryItems[g].toolCallResults) = 2

\* the iterations of the for loop and its end
LoopStep ==
  IterUtterance \/ IterToolCall \/ IterToolCallResult \/ IterUnexpected \/ EndLoop

\* the longest memory of the calls whose termination is checked
MaxLoopLen == 3

\* the queries of those calls: every memory up to that length
LoopQueries ==
  { [prompt |-> "Explain X", output |-> [type |-> "output-text"]] }
  \cup { [prompt |-> "Explain X", memory |-> [contents |-> m],
          output |-> [type |-> "output-text"]] : m \in SeqsUpTo(MemoryItems, MaxLoopLen) }

\* format is entered with one of these queries and formatMemoryItems runs up
\* to the for loop.
CallLoop ==
  /\ pc = "idle"
  /\ \E q \in LoopQueries :
       /\ query' = q
       /\ instructions' = CallInstructionsFormatter(instructionsFormatter, q)
  /\ pos' = 1
  /\ lastGroup' = NullGroup
  /\ regroupedMemoryItems' = <<>>
  /\ pc' = "loop"
  /\ paramsArg' = Omitted
  /\ params' = DefaultParams(Omitted)
  /\ UNCHANGED <<config, memoryItems, tools, outcome, roleMapperCalls, overlapped,
                 suspended, completed>>

NextLoop ==
  \/ CallLoop
  \/ IterUtterance
  \/ IterToolCall
  \/ IterToolCallResult
  \/ IterUnexpected
  \/ EndLoop
  \/ FormatTools
  \/ OutputSwitch
  \/ Finish

\* The for loop is synchronous code: once entered, it runs on until it ends
\* or throws.
SpecLoopRuns == Init /\ [][NextLoop]_vars /\ WF_vars(LoopStep)

\* a step of the loop handles the item at pos and moves to the next one,
\* throws at the item at pos, or ends the loop when no item is left
ItemsInOrder ==
  (pc = "loop" /\ vars' # vars) =>
    \/ /\ pos <= Len(Items)
       /\ pc' = "loop"
       /\ pos' = pos + 1
    \/ /\ pos <= Len(Items)
       /\ pc' = "thrown"
       /\ pos' = pos
    \/ /\ pos = Len(Items) + 1
       /\ pc' = "tools"
       /\ pos' = pos

\* the loop is never beyond the end of the memory, and a call that got past
\* the loop has consumed every item
ConsumedOnSuccess ==
  /\ pc \in {"loop", "tools", "output", "returned"} => pos \in 1..(Len(Items) + 1)
  /\ pc \in {"tools", "output", "returned"} => pos = Len(Items) + 1

\* C34: for every memory of n items the regrouping pass ends, with the
\* regrouped items or with an error, after examining each item at most once,
\* from left to right, without going back; when it succeeds exactly n items
\* have been consumed.
C34_RegroupingTerminates ==
  /\ [][ItemsInOrder]_vars
  /\ []ConsumedOnSuccess
  /\ (pc = "loop") ~> (pc \in {"tools", "thrown"})

C34_Witness ==
  /\ pc = "tools"
  /\ Len(Items) = MaxLoopLen
  /\ pos = MaxLoopLen + 1

\* a step of a call, from its entry to its return or throw, leaves the query
\* and the fields of the formatter as they are
InputsUnchangedByStep ==
  /\ (pc # "idle" /\ pc' # "idle") => query' = query
  /\ <<instructionsRole, instructionsFormatter, roleMapper>>' =
       <<instructionsRole, instructionsFormatter, roleMapper>>

\* a step that changes the open group or the list of closed groups changes
\* nothing of the query
AppendsTouchOwnLists ==
  (pc = "loop" /\ <<lastGroup, regroupedMemoryItems>>' # <<lastGroup, regroupedMemoryItems>>)
    => query' = query

\* C35: format leaves its inputs unchanged: from the entry of a call to its
\* return or throw the memory of the query (length, order, every item's
\* fields), its tools and its output declaration, and the formatter's
\* instructionsRole, instructionsFormatter and roleMapper stay as they were;
\* the appends of the regrouping change only the lists made in the call.
C35_InputsUnchanged ==
  [][InputsUnchangedByStep /\ AppendsTouchOwnLists]_vars /\ []FieldsAsConstructed

C35_Witness ==
  /\ pc = "thrown"
  /\ Len(Items) = 4
  /\ Len(regroupedMemoryItems) >= 1
  /\ lastGroup.type = "assistant"
  /\ Len(lastGroup.toolCalls) = 2

\* the steps of a call in the order of the code
StepRank ==
  CASE pc = "idle" -> 0
    [] pc = "loop" -> 1
    [] pc = "tools" -> 2
    [] pc = "output" -> 3
    [] OTHER -> 4

\* A step of a call goes forward.  The instructions are made by the step that
\* enters the call and by no other; the items are examined after it; the
\* tools are rendered by a step that finds every item regrouped; the result
\* is assembled by the step of the output switch, after the tools.
StepsInOrder ==
  /\ pc' # "idle" => StepRank' >= StepRank
  /\ (instructions' # instructions /\ pc' # "idle") =>
       /\ pc = "idle" /\ pc' = "loop"
       /\ pos' = 1 /\ lastGroup' = NullGroup /\ regroupedMemoryItems' = <<>>
  /\ (pc # "idle" /\ pc' # "idle") =>
       instructions = CallInstructionsFormatter(instructionsFormatter, query)
  /\ (pos' # pos \/ lastGroup' # lastGroup) /\ pc' # "idle" /\ pc # "idle" =>
       pc = "loop" /\ memoryItems = <<>> /\ tools = <<>>
  /\ (pc = "tools" /\ pc' # pc) =>
       /\ pos = Len(Items) + 1
       /\ memoryItems =
            SynthesizeMessages(instructionsRole, instructions, regroupedMemoryItems)
       /\ pc' = "output"
       /\ tools' = formatTools(query)
       /\ outcome' = NoOutcome
  /\ (pc = "output" /\ pc' # pc) =>
       /\ tools = formatTools(query)
       /\ pc' \in {"returned", "thrown"}

\* the memory makes the regrouping fail: it has an item of an unknown type,
\* it starts with a tool call result, or an utterance that opens a group is
\* not mapped to 'user' or 'assistant'
InvalidMemory ==
  \/ UnexpectedPositions # {}
  \/ Items # <<>> /\ Items[1].type = "tool-call-result"
  \/ \E i \in UtterancePositions :
       ~AttachedInPlace(i) /\ MappedRole(Items[i]) \notin {"user", "assistant"}

\* a call whose query has an invalid memory and an unknown output type fails
\* with the error of a memory item
MemoryErrorFirst ==
  (pc \in {"returned", "thrown"} /\ InvalidMemory /\ UnknownOutputType) =>
    /\ pc = "thrown"
    /\ pos <= Len(Items)
    /\ outcome = Thrown(ErrorOfItem(Items[pos]))
    /\ outcome.message # "Unknown output type: " \o query.output.type
    /\ tools = <<>>

\* C36: in one call the steps run in a fixed order: the instructions
\* formatter is called once, before any memory item is examined; every
\* memory item is regrouped before the tools are rendered; the switch on the
\* output type runs last.  So a query with an invalid memory and an unknown
\* output type fails with the memory error, not with 'Unknown output type'.
C36_StepsInFixedOrder ==
  [][StepsInOrder]_vars /\ []MemoryErrorFirst

C36_Witness ==
  /\ pc = "thrown"
  /\ InvalidMemory
  /\ UnknownOutputType
  /\ "tools" \in DOMAIN query
  /\ outcome.message = "Unexpected memory type: snapshot"

\* the message the error of formatJsonSchema is written to have
SchemaErrorAsWritten(q) ==
  "Query output type must be 'output-json', but " \o
    (IF "output" \in DOMAIN q
       THEN "got '" \o q.output.type \o "'"
       ELSE "output is left as default (text)")

\* C37: when formatJsonSchema is reached for a query that has no output, it
\* fails with an error saying that the output is left as default (text);
\* when the output is there but is not of type 'output-json', the message of
\* the error begins with "Query output type must be 'output-json', but" and
\* reports the type found.
C37_SchemaErrorNamesRequirement ==
  (pc = "thrown" /\ memoryItems # <<>>) =>
    outcome = Thrown(SchemaErrorAsWritten(query))

====
